---- MODULE Spec2Model ----
(***************************************************************************)
(* A model of the credibility engine of El_Matador                         *)
(* (src/credibility_analyzer.py): the pure scoring functions of            *)
(* CredibilityAnalyzer, the orchestrating method analyze as a step         *)
(* machine over its collaborator calls, and format_json_output; of         *)
(* analyze called concurrently on one shared instance; and of the UI       *)
(* script (src/streamlit_app.py): its input validation, load_model, the   *)
(* Analyze button and the analysis workflow of main over st.session_state. *)
(*                                                                         *)
(* Specifications: Spec (one call of analyze), SpecFn (the methods and     *)
(* validators applied on their own to drawn inputs), SpecPar (NCalls       *)
(* concurrent calls of analyze), SpecUI (the runs of main).                *)
(*                                                                         *)
(* Numbers.  Every real number the engine handles in [0,1] is kept as an   *)
(* integer number of 1/Unit (Unit = 60, the least common multiple of the   *)
(* saturation divisors 5, 3, 2, 4, 6, 2; the weights 0.15, 0.10, 0.05 and  *)
(* the thresholds 0.75, 0.5, 0.7, 0.3, 0.1 are all multiples of 1/60).     *)
(* A pattern score is a number of 1/(Unit*Unit).  Arithmetic is exact      *)
(* rational arithmetic; Python's round() is round-half-to-even.            *)
(*                                                                         *)
(* Python values that end up in a result dictionary are tagged records     *)
(* [t |-> <type name>, ...] so that isinstance() can be modelled.          *)
(***************************************************************************)
EXTENDS Integers, Sequences, FiniteSets, TLC

VARIABLES
    pc,           \* position of the analyze call: idle, the collaborator steps, returned, raised
    text,         \* the text argument of analyze
    model,        \* what the classifier offers: [proba |-> BOOLEAN, decision |-> BOOLEAN]
    calls,        \* collaborator operations invoked so far by this call, in order
    model_prediction,
    model_confidence,
    detected_patterns,
    emotional_tone,
    suspicious_claims,
    predict_proba,      \* what model.predict_proba(features)[0] returned to the call (PyNone: not called)
    decision_function,  \* what model.decision_function(features)[0] returned to the call
    result,       \* the dictionary analyze returned (NoResult before the return)
    raised,       \* the collaborator operation whose exception left analyze ("none": no exception)
    fn,           \* pure-function harness: the method applied ("none" before the call)
    args,         \* pure-function harness: the inputs drawn
    ret,          \* pure-function harness: the value returned
    frames,       \* concurrent calls on one instance: the frame (position, arguments, locals) of each
    invoked,      \* concurrent calls: the arguments each caller passed and the result it got back
    instance,     \* concurrent calls: the attributes of the shared CredibilityAnalyzer (self.__dict__)
    world,        \* concurrent calls: the deterministic collaborators the calls share
    session_state,  \* the UI script: st.session_state
    script,         \* the UI script: position of the current run of main ("waiting": no run)
    article_text,   \* the UI script: the text render_input_panel returned to main
    results,        \* the UI script: what analyzer.analyze returned to this run of main (PyNone: nothing)
    shown,          \* the UI script: what the results column rendered in the last finished run
    button          \* the UI script: the Analyze button as this run rendered it (PyNone: not yet)

vars == << pc, text, model, calls, model_prediction, model_confidence,
           detected_patterns, emotional_tone, suspicious_claims, predict_proba,
           decision_function, result, raised, fn, args, ret, frames, invoked, instance, world,
           session_state, script, article_text, results, shown, button >>

(***************************************************************************)
(* Bounds of the model.                                                    *)
(***************************************************************************)
MaxOver == 1      \* count signals range over 0 .. cap + MaxOver
MaxPad == 1       \* leading / trailing whitespace characters of an article
NCalls == 2       \* analyze calls running concurrently on one instance

(***************************************************************************)
(* Fixed-point scale and rounding.                                         *)
(***************************************************************************)
Unit == 5 * 3 * 4
PsUnit == Unit * Unit

Min(a, b) == IF a < b THEN a ELSE b
Max(a, b) == IF a > b THEN a ELSE b
Abs(a) == IF a < 0 THEN -a ELSE a

\* Python max() of a non-empty sequence of numbers.
max(seq) == CHOOSE m \in { seq[i] : i \in 1..Len(seq) } : \A i \in 1..Len(seq) : seq[i] <= m

\* Python round(num/den), den > 0: nearest integer, ties to the even one.
PyRound(num, den) ==
    LET q == num \div den
        r == num % den
    IN  IF 2 * r < den THEN q
        ELSE IF 2 * r > den THEN q + 1
        ELSE IF q % 2 = 0 THEN q ELSE q + 1

RECURSIVE SumSeq(_)
SumSeq(s) == IF s = << >> THEN 0 ELSE Head(s) + SumSeq(Tail(s))

(***************************************************************************)
(* Python values.                                                          *)
(***************************************************************************)
PyNone == [t |-> "NoneType"]
PyStr(s) == [t |-> "str", s |-> s]
PyInt(n) == [t |-> "int", n |-> n]
PyBool(b) == [t |-> "bool", b |-> b]
PyFloat(n) == [t |-> "float", n |-> n]          \* n counts 1/PsUnit
PyList(items) == [t |-> "list", items |-> items]
PyDict(m) == [t |-> "dict", map |-> m]
\* What the classifier returns: a row of class probabilities (in 1/Unit), a margin (in sixths).
NdArray(items) == [t |-> "ndarray", items |-> items]
Float64(n) == [t |-> "float64", n |-> n]

\* isinstance(value, expected_type); bool is a subclass of int in Python.
isinstance(value, type) ==
    \/ value.t = type
    \/ type = "int" /\ value.t = "bool"

\* The integer a Python int (or bool) compares as.
IntOf(value) == IF value.t = "bool" THEN (IF value.b THEN 1 ELSE 0) ELSE value.n

(***************************************************************************)
(* The article text.  A string is characterised by what analyze reads of   *)
(* it: its leading whitespace, its body (from the first to the last        *)
(* non-whitespace character) and its trailing whitespace.                  *)
(***************************************************************************)
MinTextLen == 50

Article(lead, body, trail) == [t |-> "str", lead |-> lead, body |-> body, trail |-> trail]

len(x) == x.lead + x.body + x.trail
strip(x) == Article(0, x.body, 0)

\* Python truthiness of the values analyze may be handed as text.
Truthy(x) ==
    CASE x.t = "NoneType" -> FALSE
      [] x.t = "int" -> x.n # 0
      [] x.t = "str" -> len(x) > 0
      [] OTHER -> TRUE

(***************************************************************************)
(* PatternSignals: a mapping from pattern names to numbers.  Counts are    *)
(* naturals; ratios count 1/Unit.  Keys may be missing.                    *)
(***************************************************************************)
PatternNames == << "sensational_phrases", "excessive_caps", "vague_sources",
                   "conspiracy_framing", "emotional_manipulation", "one_sided",
                   "no_evidence", "extreme_adjectives", "clickbait" >>

NameSet == { PatternNames[i] : i \in 1..Len(PatternNames) }
RatioNames == { "excessive_caps", "one_sided", "no_evidence" }
CountNames == NameSet \ RatioNames

\* The saturation divisor of each count signal.
Cap == [ sensational_phrases |-> 5, vague_sources |-> 3, conspiracy_framing |-> 2,
         emotional_manipulation |-> 4, extreme_adjectives |-> 6, clickbait |-> 2 ]

\* The weight of each signal, in 1/Unit (0.15 = 9/60, 0.10 = 6/60, 0.05 = 3/60).
Weight == [ sensational_phrases |-> 9, excessive_caps |-> 6, vague_sources |-> 9,
            conspiracy_framing |-> 9, emotional_manipulation |-> 6, one_sided |-> 6,
            no_evidence |-> 6, extreme_adjectives |-> 6, clickbait |-> 3 ]

\* patterns.get(key, 0)
Get(patterns, key) == IF key \in DOMAIN patterns THEN patterns[key] ELSE 0

\* min(1.0, count / cap) for a count signal, the ratio itself for a ratio signal; in 1/Unit.
Norm(patterns, key) ==
    IF key \in CountNames
    THEN Min(Unit, (Get(patterns, key) * Unit) \div Cap[key])
    ELSE Get(patterns, key)

\* Variant: the count signals are not capped at 1.0.
calculate_pattern_score_NoCap(patterns) ==
    SumSeq([ i \in 1..Len(PatternNames) |->
               (IF PatternNames[i] \in CountNames
                THEN (Get(patterns, PatternNames[i]) * Unit) \div Cap[PatternNames[i]]
                ELSE Get(patterns, PatternNames[i])) * Weight[PatternNames[i]] ])

\* The weighted sum of the nine normalised signals, in 1/PsUnit.
calculate_pattern_score(patterns) ==
    SumSeq([ i \in 1..Len(PatternNames) |->
               Norm(patterns, PatternNames[i]) * Weight[PatternNames[i]] ])

(***************************************************************************)
(* classify_credibility                                                    *)
(***************************************************************************)
\* Variant: every threshold comparison includes its boundary.
classify_credibility_Strict(txt, prediction, confidence, patterns) ==
    LET pattern_score == calculate_pattern_score(patterns)
    IN  IF len(txt) < MinTextLen THEN "UNVERIFIED"
        ELSE IF prediction = 0 /\ 4 * confidence >= 3 * Unit
             THEN (IF 10 * pattern_score >= 7 * PsUnit THEN "FAKE" ELSE "MISLEADING")
        ELSE IF prediction = 1 /\ 4 * confidence >= 3 * Unit
             THEN (IF 10 * pattern_score <= 3 * PsUnit THEN "REAL" ELSE "MISLEADING")
        ELSE IF 2 * confidence <= Unit THEN "UNVERIFIED"
        ELSE IF 2 * pattern_score >= PsUnit THEN "MISLEADING"
        ELSE "REAL"

classify_credibility(txt, prediction, confidence, patterns) ==
    LET pattern_score == calculate_pattern_score(patterns)
    IN  IF len(txt) < MinTextLen THEN "UNVERIFIED"
        ELSE IF prediction = 0 /\ 4 * confidence > 3 * Unit             \* > 0.75
             THEN (IF 10 * pattern_score > 7 * PsUnit THEN "FAKE" ELSE "MISLEADING")
        ELSE IF prediction = 1 /\ 4 * confidence > 3 * Unit
             THEN (IF 10 * pattern_score < 3 * PsUnit THEN "REAL" ELSE "MISLEADING")
        ELSE IF 2 * confidence < Unit THEN "UNVERIFIED"                 \* < 0.5
        ELSE IF 2 * pattern_score > PsUnit THEN "MISLEADING"
        ELSE "REAL"

(***************************************************************************)
(* calculate_credibility_score.  With confidence = c/Unit and              *)
(* pattern_score = p/PsUnit, model_component*0.70 + pattern_component*0.30 *)
(* is (140*c' + (PsUnit - p)) / 120, c' = c or Unit - c.                   *)
(***************************************************************************)
BlendDen == 2 * Unit

\* model_component * 0.70 + pattern_component * 0.30, in 1/BlendDen.
Blend(confidence, prediction, pattern_score) ==
    LET model_component == IF prediction = 1 THEN confidence ELSE Unit - confidence
    IN  140 * model_component + (PsUnit - pattern_score)

\* Variant: the model component is not inverted for prediction 0.
calculate_credibility_score_NoInvert(confidence, prediction, pattern_score) ==
    PyRound(Max(0, Min(100 * BlendDen, 140 * confidence + (PsUnit - pattern_score))), BlendDen)

\* Variant: the two branches of the model component are swapped.
calculate_credibility_score_Swapped(confidence, prediction, pattern_score) ==
    PyRound(Max(0, Min(100 * BlendDen,
                       140 * (IF prediction = 1 THEN Unit - confidence ELSE confidence)
                         + (PsUnit - pattern_score))), BlendDen)

calculate_credibility_score(confidence, prediction, pattern_score) ==
    PyRound(Max(0, Min(100 * BlendDen, Blend(confidence, prediction, pattern_score))), BlendDen)

(***************************************************************************)
(* determine_risk_level                                                    *)
(***************************************************************************)
\* Variant: the tier thresholds exclude 75 and 40.
determine_risk_level_Strict(credibility_score) ==
    IF credibility_score > 75 THEN "Low Risk"
    ELSE IF credibility_score > 40 THEN "Medium Risk"
    ELSE "High Risk"

determine_risk_level(credibility_score) ==
    IF credibility_score >= 75 THEN "Low Risk"
    ELSE IF credibility_score >= 40 THEN "Medium Risk"
    ELSE "High Risk"

(***************************************************************************)
(* The model confidence analyze derives from a decision margin d (in       *)
(* sixths): min(1.0, 0.5 + abs(d) / 10.0), in 1/Unit.                      *)
(***************************************************************************)
\* Variant: the sign of the margin is kept.
MarginConfidence_Signed(d) == Min(Unit, Unit \div 2 + d)

MarginConfidence(d) == Min(Unit, Unit \div 2 + Abs(d))

(***************************************************************************)
(* Pattern consistency, computed inline by analyze: 1 - min(1, 2*variance) *)
(* of the nine normalised values.  With n_i in 1/Unit and S their sum, the *)
(* population variance is sum((9*n_i - S)^2) / VarDen.                     *)
(***************************************************************************)
VarDen == 9 * (9 * Unit) * (9 * Unit)

\* pattern_values: count / cap for a count signal, the ratio itself otherwise; in 1/Unit.
pattern_values(patterns) ==
    [ i \in 1..Len(PatternNames) |->
        IF PatternNames[i] \in CountNames
        THEN (Get(patterns, PatternNames[i]) * Unit) \div Cap[PatternNames[i]]
        ELSE Get(patterns, PatternNames[i]) ]

\* normalized_values = [min(1.0, v) for v in pattern_values]
normalized_values(patterns) ==
    [ i \in 1..Len(PatternNames) |-> Min(Unit, pattern_values(patterns)[i]) ]

\* Variant: the sample variance (divisor n - 1) in place of the population variance.
variance_Sample(patterns) ==
    LET nv == normalized_values(patterns)
        S == SumSeq(nv)
    IN  (9 * SumSeq([ i \in 1..Len(nv) |-> (9 * nv[i] - S) * (9 * nv[i] - S) ])) \div 8

\* variance, in 1/VarDen
variance(patterns) ==
    LET nv == normalized_values(patterns)
        S == SumSeq(nv)
    IN  SumSeq([ i \in 1..Len(nv) |-> (9 * nv[i] - S) * (9 * nv[i] - S) ])

\* pattern_consistency = 1.0 - min(1.0, variance * 2.0), in 1/VarDen
pattern_consistency(patterns) == VarDen - Min(VarDen, 2 * variance(patterns))

(***************************************************************************)
(* calculate_confidence: round((0.6*mc + 0.4*consistency) * 100), with     *)
(* mc in 1/Unit and consistency in 1/VarDen.                               *)
(***************************************************************************)
\* Variant: the weights 0.6 and 0.4 are swapped.
calculate_confidence_Swapped(confidence, consistency) ==
    PyRound(40 * confidence * (VarDen \div Unit) + 60 * consistency, VarDen)

calculate_confidence(confidence, consistency) ==
    PyRound(confidence * VarDen + 40 * consistency, VarDen)

(***************************************************************************)
(* extract_key_indicators                                                  *)
(***************************************************************************)
\* The nine threshold rules, in declaration order: the signal, whether its
\* raw value exceeds the threshold, and the sentence appended.
IndicatorRules(patterns) ==
    << [on |-> Get(patterns, "sensational_phrases") > 3,
        say |-> "High use of sensational language"],
       [on |-> 10 * Get(patterns, "excessive_caps") > Unit,
        say |-> "Excessive capitalization detected"],
       [on |-> Get(patterns, "vague_sources") > 2,
        say |-> "Multiple vague source references"],
       [on |-> Get(patterns, "conspiracy_framing") > 0,
        say |-> "Conspiracy framing language present"],
       [on |-> Get(patterns, "emotional_manipulation") > 2,
        say |-> "Emotional manipulation tactics detected"],
       [on |-> 10 * Get(patterns, "one_sided") > 7 * Unit,
        say |-> "One-sided narrative without counterpoints"],
       [on |-> 10 * Get(patterns, "no_evidence") > 7 * Unit,
        say |-> "Lack of verifiable evidence or data"],
       [on |-> Get(patterns, "extreme_adjectives") > 5,
        say |-> "Overuse of extreme adjectives"],
       [on |-> Get(patterns, "clickbait") > 0,
        say |-> "Clickbait patterns in text"] >>

RECURSIVE Fired(_)
Fired(rules) ==
    IF rules = << >> THEN << >>
    ELSE (IF Head(rules).on THEN << Head(rules).say >> ELSE << >>) \o Fired(Tail(rules))

FallbackIndicators == << "Balanced language and structure", "Appropriate use of sources" >>

\* Variant: nothing is appended when no rule fired.
extract_key_indicators_NoFallback(patterns, txt) == Fired(IndicatorRules(patterns))

extract_key_indicators(patterns, txt) ==
    LET indicators == Fired(IndicatorRules(patterns))
    IN  IF Len(indicators) = 0 THEN FallbackIndicators ELSE indicators

(***************************************************************************)
(* generate_recommended_action                                             *)
(***************************************************************************)
HighRiskAction == "Exercise extreme caution with this content. Verify claims through multiple independent and reputable sources before accepting or sharing. Consider this content potentially misleading or false."
MediumRiskAction == "Approach this content with caution. Cross-reference key claims with other credible sources and look for additional evidence before drawing conclusions or sharing."
LowRiskAction == "This content appears credible based on linguistic analysis. However, always maintain critical thinking and verify important claims through additional sources when making significant decisions."

\* Variant: Medium Risk is given the High Risk action.
generate_recommended_action_Merged(risk_level) ==
    IF risk_level = "Low Risk" THEN LowRiskAction ELSE HighRiskAction

generate_recommended_action(risk_level) ==
    IF risk_level = "High Risk" THEN HighRiskAction
    ELSE IF risk_level = "Medium Risk" THEN MediumRiskAction
    ELSE LowRiskAction

(***************************************************************************)
(* generate_analysis_summary and generate_explanation                      *)
(***************************************************************************)
\* str.lower() on the indicator sentences.
lower(sentence) ==
    CASE sentence = "High use of sensational language" -> "high use of sensational language"
      [] sentence = "Excessive capitalization detected" -> "excessive capitalization detected"
      [] sentence = "Multiple vague source references" -> "multiple vague source references"
      [] sentence = "Conspiracy framing language present" -> "conspiracy framing language present"
      [] sentence = "Emotional manipulation tactics detected" -> "emotional manipulation tactics detected"
      [] sentence = "One-sided narrative without counterpoints" -> "one-sided narrative without counterpoints"
      [] sentence = "Lack of verifiable evidence or data" -> "lack of verifiable evidence or data"
      [] sentence = "Overuse of extreme adjectives" -> "overuse of extreme adjectives"
      [] sentence = "Clickbait patterns in text" -> "clickbait patterns in text"
      [] sentence = "Balanced language and structure" -> "balanced language and structure"
      [] sentence = "Appropriate use of sources" -> "appropriate use of sources"

generate_analysis_summary(classification, credibility_score, key_indicators) ==
    LET score == ToString(credibility_score) \o "/100. "
        opening ==
            CASE classification = "REAL" ->
                   "This article appears credible with a credibility score of " \o score
              [] classification = "FAKE" ->
                   "This article shows strong indicators of misinformation with a credibility score of " \o score
              [] classification = "MISLEADING" ->
                   "This article contains misleading elements with a credibility score of " \o score
              [] OTHER ->
                   "This article cannot be reliably assessed with a credibility score of " \o score
        primary == SubSeq(key_indicators, 1, Min(3, Len(key_indicators)))
        factors ==
            CASE Len(primary) = 0 -> ""
              [] Len(primary) = 1 ->
                   "The primary factor is: " \o lower(primary[1]) \o ". "
              [] Len(primary) = 2 ->
                   "Key factors include: " \o lower(primary[1]) \o " and " \o lower(primary[2]) \o ". "
              [] OTHER ->
                   "Key factors include: " \o lower(primary[1]) \o ", " \o lower(primary[2])
                       \o ", and " \o lower(primary[3]) \o ". "
        closing ==
            CASE classification = "REAL" ->
                   "The content demonstrates balanced reporting and appropriate sourcing."
              [] classification = "FAKE" ->
                   "Multiple red flags suggest this content should be treated with extreme skepticism."
              [] classification = "MISLEADING" ->
                   "While some elements may be factual, the overall presentation raises concerns."
              [] OTHER ->
                   "Additional information would be needed for a more definitive assessment."
    IN  opening \o factors \o closing

\* f"{pattern_score:.2f}" for a score in [0, 1]
FormatF2(pattern_score) ==
    LET h == PyRound(100 * pattern_score, PsUnit)
    IN  ToString(h \div 100) \o "." \o ToString((h % 100) \div 10) \o ToString(h % 10)

RECURSIVE JoinFindings(_, _, _)
JoinFindings(indicators, i, n) ==
    IF i > n THEN ""
    ELSE (IF i = 1 THEN lower(indicators[i])
          ELSE IF i = n THEN ", and " \o lower(indicators[i])
          ELSE ", " \o lower(indicators[i]))
         \o JoinFindings(indicators, i + 1, n)

RECURSIVE JoinComma(_)
JoinComma(parts) ==
    IF parts = << >> THEN ""
    ELSE IF Len(parts) = 1 THEN Head(parts)
    ELSE Head(parts) \o ", " \o JoinComma(Tail(parts))

notable_patterns(patterns) ==
    (IF Get(patterns, "sensational_phrases") > 3
     THEN << "sensational language (" \o ToString(patterns["sensational_phrases"]) \o " instances)" >>
     ELSE << >>)
    \o (IF Get(patterns, "vague_sources") > 2
        THEN << "vague source references (" \o ToString(patterns["vague_sources"]) \o " instances)" >>
        ELSE << >>)
    \o (IF Get(patterns, "emotional_manipulation") > 2
        THEN << "emotional manipulation tactics (" \o ToString(patterns["emotional_manipulation"]) \o " instances)" >>
        ELSE << >>)
    \o (IF Get(patterns, "conspiracy_framing") > 0
        THEN << "conspiracy framing language (" \o ToString(patterns["conspiracy_framing"]) \o " instances)" >>
        ELSE << >>)

generate_explanation(classification, credibility_score, patterns, indicators) ==
    LET head == "The article received a classification of '" \o classification
                  \o "' with a credibility score of " \o ToString(credibility_score) \o "/100. "
        reasoning ==
            CASE classification = "REAL" ->
                   "This classification indicates that the linguistic patterns and content structure align with credible journalism. "
              [] classification = "FAKE" ->
                   "This classification indicates strong linguistic patterns associated with misinformation and fabricated content. "
              [] classification = "MISLEADING" ->
                   "This classification indicates a mix of credible and suspicious elements, suggesting partial truth with potential distortion. "
              [] OTHER ->
                   "This classification indicates insufficient information or ambiguous patterns that prevent a definitive assessment. "
        scoreText == "The overall pattern analysis score is "
                       \o FormatF2(calculate_pattern_score(patterns))
                       \o " (on a scale where higher values indicate more suspicious patterns). "
        findings ==
            IF Len(indicators) > 0
            THEN "Specific findings include: " \o JoinFindings(indicators, 1, Len(indicators)) \o ". "
            ELSE ""
        notable ==
            IF notable_patterns(patterns) # << >>
            THEN "Notable patterns detected: " \o JoinComma(notable_patterns(patterns)) \o ". "
            ELSE ""
    IN  head \o reasoning \o scoreText \o findings \o notable
          \o "This assessment is based exclusively on linguistic and structural analysis of the provided text, without external fact-checking or knowledge injection."

(***************************************************************************)
(* format_json_output.  A candidate is a function from field names to      *)
(* Python values.  The outcome is either the formatted output or the       *)
(* ValueError raised: "missing" lists every absent required field, "type"  *)
(* and "value" name the first offending field in declaration order.        *)
(***************************************************************************)
required_fields ==
    << [field |-> "classification", type |-> "str"],
       [field |-> "credibility_score", type |-> "int"],
       [field |-> "risk_level", type |-> "str"],
       [field |-> "confidence", type |-> "int"],
       [field |-> "analysis_summary", type |-> "str"],
       [field |-> "key_indicators", type |-> "list"],
       [field |-> "emotional_tone", type |-> "str"],
       [field |-> "suspicious_claims", type |-> "list"],
       [field |-> "recommended_action", type |-> "str"],
       [field |-> "explanation", type |-> "str"] >>

RequiredNames == { required_fields[i].field : i \in 1..Len(required_fields) }

valid_classifications == { "REAL", "FAKE", "MISLEADING", "UNVERIFIED" }
valid_risk_levels == { "Low Risk", "Medium Risk", "High Risk" }

RECURSIVE missing_fields(_, _)
\* Variant: the scan stops at the first missing field.
missing_fields_First(analysis_result, i) ==
    IF i > Len(required_fields) THEN << >>
    ELSE IF required_fields[i].field \in DOMAIN analysis_result
         THEN missing_fields(analysis_result, i + 1)
         ELSE << required_fields[i].field >>

missing_fields(analysis_result, i) ==
    IF i > Len(required_fields) THEN << >>
    ELSE (IF required_fields[i].field \in DOMAIN analysis_result
          THEN << >> ELSE << required_fields[i].field >>)
         \o missing_fields(analysis_result, i + 1)

ValueError(kind, fields, detail) ==
    [ok |-> FALSE, exc |-> "ValueError", kind |-> kind, fields |-> fields, detail |-> detail]

\* Variant: the items of the two lists are not checked.
FieldValueOk_NoItems(field, value) ==
    CASE field = "classification" -> value.s \in valid_classifications
      [] field = "credibility_score" -> 0 <= IntOf(value) /\ IntOf(value) <= 100
      [] field = "confidence" -> 0 <= IntOf(value) /\ IntOf(value) <= 100
      [] field = "risk_level" -> value.s \in valid_risk_levels
      [] OTHER -> TRUE

\* The additional validation of one field whose type is right: TRUE when it passes.
FieldValueOk(field, value) ==
    CASE field = "classification" -> value.s \in valid_classifications
      [] field = "credibility_score" -> 0 <= IntOf(value) /\ IntOf(value) <= 100
      [] field = "confidence" -> 0 <= IntOf(value) /\ IntOf(value) <= 100
      [] field = "risk_level" -> value.s \in valid_risk_levels
      [] field \in { "key_indicators", "suspicious_claims" } ->
           \A k \in 1..Len(value.items) : isinstance(value.items[k], "str")
      [] OTHER -> TRUE

\* The index of the first required field that fails its type or value check
\* (Len(required_fields) + 1 when none does).
RECURSIVE FirstInvalid(_, _)
FirstInvalid(analysis_result, i) ==
    IF i > Len(required_fields) THEN i
    ELSE LET value == analysis_result[required_fields[i].field]
         IN  IF /\ isinstance(value, required_fields[i].type)
                /\ FieldValueOk(required_fields[i].field, value)
             THEN FirstInvalid(analysis_result, i + 1)
             ELSE i

format_json_output(analysis_result) ==
    LET missing == missing_fields(analysis_result, 1)
        i == FirstInvalid(analysis_result, 1)
    IN  IF missing # << >> THEN ValueError("missing", missing, "")
        ELSE IF i <= Len(required_fields)
             THEN LET field == required_fields[i].field
                      value == analysis_result[field]
                  IN  IF ~isinstance(value, required_fields[i].type)
                      THEN ValueError("type", << field >>,
                                      "Expected " \o required_fields[i].type \o ", got " \o value.t)
                      ELSE ValueError("value", << field >>, "")
             ELSE [ok |-> TRUE, output |-> [f \in RequiredNames |-> analysis_result[f]]]

(***************************************************************************)
(* The input validation of the UI (src/streamlit_app.py): validate_input   *)
(* and InputValidator.validate return the pair (is_valid, error_message).  *)
(***************************************************************************)
MIN_TEXT_LENGTH == 50
MAX_TEXT_LENGTH == 50000
MIN_LENGTH == 50
MAX_LENGTH == 50000

\* Variant: a text of exactly the minimum length is rejected.
validate_input_Exclusive(txt) ==
    LET text_length == len(txt)
    IN  IF text_length <= MIN_TEXT_LENGTH
        THEN << FALSE, "Article text must be at least 50 characters" >>
        ELSE IF text_length > MAX_TEXT_LENGTH
        THEN << FALSE, "Article text must not exceed 50,000 characters" >>
        ELSE << TRUE, "" >>

validate_input(txt) ==
    LET text_length == len(txt)
    IN  IF text_length < MIN_TEXT_LENGTH
        THEN << FALSE, "Article text must be at least 50 characters" >>
        ELSE IF text_length > MAX_TEXT_LENGTH
        THEN << FALSE, "Article text must not exceed 50,000 characters" >>
        ELSE << TRUE, "" >>

InputValidator_validate(txt) ==
    LET text_length == len(txt)
    IN  IF text_length < MIN_LENGTH
        THEN << FALSE, "Article text must be at least 50 characters" >>
        ELSE IF text_length > MAX_LENGTH
        THEN << FALSE, "Article text must not exceed 50,000 characters" >>
        ELSE << TRUE, "" >>

\* st.session_state before the first run: no key.
NoKeys == [ key \in {} |-> PyNone ]

\* st.session_state.key = value
Set(state, key, value) ==
    [ k \in (DOMAIN state) \cup { key } |-> IF k = key THEN value ELSE state[k] ]

\* if key not in st.session_state: st.session_state.key = value
Default(state, key, value) == IF key \in DOMAIN state THEN state ELSE Set(state, key, value)

\* st.session_state.get(key, default)
StateGet(state, key, default) == IF key \in DOMAIN state THEN state[key] ELSE default

(***************************************************************************)
(* The Analyze button of render_input_panel: the disabled argument of      *)
(* st.button, from the length of the text and the analyzing flag.          *)
(***************************************************************************)
\* Variant: the analyzing flag is not consulted.
disabled_TextOnly(char_count, is_analyzing) ==
    char_count < MIN_TEXT_LENGTH \/ char_count > MAX_TEXT_LENGTH

disabled(char_count, is_analyzing) ==
    char_count < MIN_TEXT_LENGTH \/ char_count > MAX_TEXT_LENGTH \/ is_analyzing

\* st.button("Analyze Article", ..., disabled=...) as rendered for the text
\* of the text area under the given st.session_state.
st_button(state, txt) ==
    LET char_count == len(txt)
        is_analyzing == StateGet(state, "analyzing", FALSE)
    IN  [ label |-> "Analyze Article",
          is_analyzing |-> is_analyzing,
          disabled |-> disabled(char_count, is_analyzing) ]

(***************************************************************************)
(* load_model (src/streamlit_app.py): the two files are looked for, then   *)
(* loaded with joblib.load.  env tells whether each file exists and what   *)
(* each joblib.load does: it returns the object or raises an exception.    *)
(***************************************************************************)
\* An exception: its class, what str() of it is made of, and what st.error
\* displayed before it was raised ("" when nothing was displayed).
Exception(class, message, st_error) ==
    [ raised |-> class, message |-> message, st_error |-> st_error ]

\* joblib.load(path) returned the object.
Loaded(object) == [ loaded |-> object ]

\* What joblib.load(path) may do: return the object, raise an exception that
\* is not a FileNotFoundError (a corrupted file), or raise FileNotFoundError
\* (the file is gone by the time it is opened).
JoblibOutcomes(object) ==
    { Loaded(object),
      Exception("Exception", << "Corrupted file" >>, ""),
      Exception("FileNotFoundError", << "[Errno 2] No such file or directory: ", object >>, "") }

\* except Exception as e: raise Exception(error_msg) from e
FailedToLoad(e) ==
    Exception("Exception", << "Failed to load model files: " >> \o e.message,
              "**Model Loading Error**")

\* What leaves the try block when joblib.load raised e: a FileNotFoundError
\* is re-raised as it is, any other Exception is wrapped.
Handle(e) == IF e.raised = "FileNotFoundError" THEN e ELSE FailedToLoad(e)

load_model(env) ==
    IF ~env.model_exists
    THEN Exception("FileNotFoundError", << "Model file not found at: ", "best_model.joblib" >>,
                   "**Model File Missing**")
    ELSE IF ~env.vectorizer_exists
    THEN Exception("FileNotFoundError",
                   << "Vectorizer file not found at: ", "tfidf_vectorizer.joblib" >>,
                   "**Vectorizer File Missing**")
    ELSE IF "raised" \in DOMAIN env.model_load THEN Handle(env.model_load)
    ELSE IF "raised" \in DOMAIN env.vectorizer_load THEN Handle(env.vectorizer_load)
    ELSE [ returned |-> << env.model_load.loaded, env.vectorizer_load.loaded >> ]

(***************************************************************************)
(* Input universes.                                                        *)
(***************************************************************************)
\* Values a signal is drawn from: counts 0 .. cap + MaxOver, ratios in tenths.
SignalValues(key) ==
    IF key \in CountNames THEN 0..(Cap[key] + MaxOver)
    ELSE { 6 * k : k \in 0..10 }

Zero == [ k \in NameSet |-> 0 ]
Saturated == [ k \in NameSet |-> IF k \in CountNames THEN Cap[k] ELSE Unit ]
\* Profiles whose pattern score is exactly 0.3, 0.5 and 0.7.
Score03 == [ Zero EXCEPT !["sensational_phrases"] = 5, !["vague_sources"] = 3 ]
Score05 == [ Score03 EXCEPT !["conspiracy_framing"] = 2, !["clickbait"] = 2 ]
Score07 == [ Score05 EXCEPT !["emotional_manipulation"] = 4, !["excessive_caps"] = Unit ]

Bases == { Zero, Saturated, Score03, Score05, Score07 }

\* A mapping with some keys absent.
Restrict(patterns, keys) == [ k \in keys |-> patterns[k] ]

PartialPatterns ==
    { Restrict(Saturated, NameSet \ {k}) : k \in NameSet }
      \cup { Restrict(Saturated, {}), Restrict(Saturated, CountNames),
             Restrict(Saturated, RatioNames) }

\* PatternSignals for the pure functions: each base with one signal varied
\* over all its values, and the mappings with missing keys.
PatternUniverse ==
    UNION { { [ b EXCEPT ![k] = v ] : v \in SignalValues(k) } : b \in Bases, k \in NameSet }
      \cup PartialPatterns

\* What detect_patterns may return to analyze: each base with one signal at
\* zero, just past its indicator threshold, at its cap, or past the cap.
DetectorValues(key) ==
    IF key \in CountNames THEN { 0, 1, Cap[key], Cap[key] + MaxOver }
    ELSE { 0, 6, 48, Unit }

DetectorOutputs ==
    UNION { { [ b EXCEPT ![k] = v ] : v \in DetectorValues(k) } : b \in Bases, k \in NameSet }
      \cup { Restrict(Saturated, {}), Restrict(Saturated, CountNames) }

\* Model confidences (in 1/Unit): 0, just below 0.5, 0.5, just above, 0.75,
\* just above, 0.9, 1.
ConfidenceGrid == { 0, 29, 30, 31, 45, 46, 54, Unit }

\* The class probabilities predict_proba may return (in 1/Unit): two or
\* three classes, the largest at either end; the largest values are 1, 0.9,
\* just above 0.75, 0.75, just above 0.5, 0.5, just below 0.5 and 1/3.
ProbaOutputs ==
    { << 0, Unit >>, << 54, 6 >>, << 14, 46 >>, << 45, 15 >>, << 29, 31 >>, << 30, 30 >>,
      << 29, 2, 29 >>, << 20, 20, 20 >> }

\* Decision margins, in sixths (0.5 + |d|/10 is then 30 + |d| sixtieths).
MarginGrid == { -31, -15, 0, 15, 16, 30, 31 }

\* What analyze_emotional_tone and identify_suspicious_claims may return:
\* values of the documented type, and ill-typed ones.
ToneOutputs == { PyStr("Neutral/Analytical"), PyNone }
ClaimOutputs == { PyList(<< >>), PyList(<< PyStr("They don't want you to know.") >>),
                  PyList(<< PyInt(7) >>) }

\* The values analyze may be handed as text.
Texts ==
    { PyNone, PyInt(0), PyInt(7) }
      \cup { Article(l, b, r) : l \in 0..MaxPad, r \in 0..MaxPad, b \in { 0, MinTextLen - 1 } }
      \cup { Article(l, MinTextLen, 0) : l \in 0..MaxPad }

\* What the classifier offers beside predict (hasattr).
Models == { [proba |-> TRUE, decision |-> TRUE], [proba |-> FALSE, decision |-> TRUE],
            [proba |-> FALSE, decision |-> FALSE] }

(***************************************************************************)
(* analyze, as a step machine.  A step is one collaborator call together   *)
(* with the code that follows it up to the next call (or the return).      *)
(***************************************************************************)
EmptyInputResult ==
    [ classification |-> PyStr("UNVERIFIED"),
      credibility_score |-> PyInt(0),
      risk_level |-> PyStr("High Risk"),
      confidence |-> PyInt(0),
      analysis_summary |-> PyStr("No text provided for analysis."),
      key_indicators |-> PyList(<< PyStr("Insufficient input") >>),
      emotional_tone |-> PyStr("N/A"),
      suspicious_claims |-> PyList(<< >>),
      recommended_action |-> PyStr("Please provide article text for analysis."),
      explanation |-> PyStr("INSUFFICIENT INFORMATION") ]

ShortTextResult ==
    [ classification |-> PyStr("UNVERIFIED"),
      credibility_score |-> PyInt(0),
      risk_level |-> PyStr("High Risk"),
      confidence |-> PyInt(0),
      analysis_summary |-> PyStr("The provided text is too short for reliable analysis."),
      key_indicators |-> PyList(<< PyStr("Insufficient text length") >>),
      emotional_tone |-> PyStr("N/A"),
      suspicious_claims |-> PyList(<< >>),
      recommended_action |-> PyStr("Please provide more substantial article text for analysis."),
      explanation |-> PyStr("INSUFFICIENT INFORMATION") ]

StrList(seq) == PyList([ i \in 1..Len(seq) |-> PyStr(seq[i]) ])

\* The dictionary assembled at the end of the full path.
FullResult(txt, prediction, confidence, patterns, tone, claims) ==
    LET pattern_score == calculate_pattern_score(patterns)
        classification == classify_credibility(txt, prediction, confidence, patterns)
        credibility_score == calculate_credibility_score(confidence, prediction, pattern_score)
        risk_level == determine_risk_level(credibility_score)
        conf == calculate_confidence(confidence, pattern_consistency(patterns))
        key_indicators == extract_key_indicators(patterns, txt)
    IN  [ classification |-> PyStr(classification),
          credibility_score |-> PyInt(credibility_score),
          risk_level |-> PyStr(risk_level),
          confidence |-> PyInt(conf),
          analysis_summary |->
              PyStr(generate_analysis_summary(classification, credibility_score, key_indicators)),
          key_indicators |-> StrList(key_indicators),
          emotional_tone |-> tone,
          suspicious_claims |-> claims,
          recommended_action |-> PyStr(generate_recommended_action(risk_level)),
          explanation |->
              PyStr(generate_explanation(classification, credibility_score, patterns, key_indicators)),
          model_prediction |-> PyInt(prediction),
          pattern_score |-> PyFloat(pattern_score),
          patterns |-> PyDict(patterns) ]

\* Variant: the length check reads the unstripped text.
InputCheck_NoStrip(txt) ==
    IF ~Truthy(txt) \/ ~isinstance(txt, "str") THEN EmptyInputResult
    ELSE IF len(txt) < MinTextLen THEN ShortTextResult
    ELSE PyNone

\* The input checks at the head of analyze: the result returned at once, or
\* PyNone when the text goes on to the full path.
InputCheck(txt) ==
    IF ~Truthy(txt) \/ ~isinstance(txt, "str") THEN EmptyInputResult
    ELSE IF len(strip(txt)) < MinTextLen THEN ShortTextResult
    ELSE PyNone

Idle ==
    /\ pc = "idle"
    /\ text = PyNone /\ model = PyNone /\ calls = << >>
    /\ model_prediction = PyNone /\ model_confidence = PyNone
    /\ detected_patterns = PyNone /\ emotional_tone = PyNone
    /\ suspicious_claims = PyNone /\ result = PyNone /\ raised = "none"
    /\ predict_proba = PyNone /\ decision_function = PyNone

HarnessIdle == fn = "none" /\ args = PyNone /\ ret = PyNone

\* No concurrent calls and no UI script.
ConcurrentIdle == frames = PyNone /\ invoked = PyNone /\ instance = PyNone /\ world = PyNone
UIIdle ==
    /\ session_state = PyNone /\ script = "none" /\ article_text = PyNone
    /\ results = PyNone /\ shown = PyNone /\ button = PyNone

Init == Idle /\ HarnessIdle /\ ConcurrentIdle /\ UIIdle

harness == << fn, args, ret >>
locals == << model_prediction, model_confidence, detected_patterns, emotional_tone,
             suspicious_claims, predict_proba, decision_function >>
concurrent == << frames, invoked, instance, world >>
ui == << session_state, script, article_text, results, shown, button >>

\* analyze(text, model, vectorizer) is called: the input checks run.
Call ==
    /\ pc = "idle"
    /\ \E txt \in Texts, m \in Models :
         /\ text' = txt
         /\ model' = m
         /\ IF InputCheck(txt) # PyNone
            THEN pc' = "returned" /\ result' = InputCheck(txt)
            ELSE pc' = "transform" /\ result' = result
    /\ UNCHANGED << calls, locals, raised, harness, concurrent, ui >>

\* Variant: the exception is caught and the no-input result is returned.
Raise_Degraded(op) ==
    /\ calls' = Append(calls, op)
    /\ raised' = op
    /\ pc' = "returned"
    /\ result' = EmptyInputResult
    /\ UNCHANGED << text, model, locals, harness, concurrent, ui >>

\* A collaborator call that raises: the exception leaves analyze.
Raise(op) ==
    /\ calls' = Append(calls, op)
    /\ raised' = op
    /\ pc' = "raised"
    /\ UNCHANGED << text, model, locals, result, harness, concurrent, ui >>

\* features = vectorizer.transform([cleaned_text])
Transform ==
    /\ pc = "transform"
    /\ \/ Raise("vectorizer.transform")
       \/ /\ calls' = Append(calls, "vectorizer.transform")
          /\ pc' = "predict"
          /\ UNCHANGED << text, model, locals, result, raised, harness, concurrent, ui >>

\* model_prediction = int(model.predict(features)[0])
Predict ==
    /\ pc = "predict"
    /\ \/ Raise("model.predict")
       \/ /\ calls' = Append(calls, "model.predict")
          /\ \E p \in { 0, 1 } : model_prediction' = p
          /\ pc' = "confidence"
          /\ UNCHANGED << text, model, model_confidence, detected_patterns, emotional_tone,
                          suspicious_claims, predict_proba, decision_function, result, raised,
                          harness, concurrent, ui >>

\* hasattr(model, "predict_proba"): model_confidence = float(max(proba))
ConfidenceProba ==
    /\ pc = "confidence"
    /\ model.proba
    /\ \/ Raise("model.predict_proba")
       \/ /\ calls' = Append(calls, "model.predict_proba")
          /\ \E proba \in ProbaOutputs :
               /\ predict_proba' = NdArray(proba)
               /\ model_confidence' = max(proba)
          /\ pc' = "detect"
          /\ UNCHANGED << text, model, model_prediction, detected_patterns, emotional_tone,
                          suspicious_claims, decision_function, result, raised,
                          harness, concurrent, ui >>

\* elif hasattr(model, "decision_function"): min(1.0, 0.5 + |decision| / 10.0)
ConfidenceDecision ==
    /\ pc = "confidence"
    /\ ~model.proba /\ model.decision
    /\ \/ Raise("model.decision_function")
       \/ /\ calls' = Append(calls, "model.decision_function")
          /\ \E d \in MarginGrid :
               /\ decision_function' = Float64(d)
               /\ model_confidence' = MarginConfidence(d)
          /\ pc' = "detect"
          /\ UNCHANGED << text, model, model_prediction, detected_patterns, emotional_tone,
                          suspicious_claims, predict_proba, result, raised,
                          harness, concurrent, ui >>

\* else: model_confidence = 0.5
ConfidenceDefault ==
    /\ pc = "confidence"
    /\ ~model.proba /\ ~model.decision
    /\ model_confidence' = Unit \div 2
    /\ pc' = "detect"
    /\ UNCHANGED << text, model, calls, model_prediction, detected_patterns, emotional_tone,
                    suspicious_claims, predict_proba, decision_function, result, raised,
                    harness, concurrent, ui >>

\* detected_patterns = pattern_detector.detect_patterns(text), then the
\* score, consistency, classification, risk, confidence and indicators.
Detect ==
    /\ pc = "detect"
    /\ \/ Raise("detect_patterns")
       \/ /\ calls' = Append(calls, "detect_patterns")
          /\ \E p \in DetectorOutputs : detected_patterns' = p
          /\ pc' = "tone"
          /\ UNCHANGED << text, model, model_prediction, model_confidence, emotional_tone,
                          suspicious_claims, predict_proba, decision_function, result, raised,
                          harness, concurrent, ui >>

\* Variant: the tone step asks the pattern detector again.
Tone_Redetect ==
    /\ pc = "tone"
    /\ \/ Raise("analyze_emotional_tone")
       \/ /\ calls' = Append(Append(calls, "detect_patterns"), "analyze_emotional_tone")
          /\ \E p \in DetectorOutputs : detected_patterns' = p
          /\ \E t \in ToneOutputs : emotional_tone' = t
          /\ pc' = "claims"
          /\ UNCHANGED << text, model, model_prediction, model_confidence,
                          suspicious_claims, predict_proba, decision_function, result, raised,
                          harness, concurrent, ui >>

\* emotional_tone = emotional_analyzer.analyze_emotional_tone(detected_patterns, text)
Tone ==
    /\ pc = "tone"
    /\ \/ Raise("analyze_emotional_tone")
       \/ /\ calls' = Append(calls, "analyze_emotional_tone")
          /\ \E t \in ToneOutputs : emotional_tone' = t
          /\ pc' = "claims"
          /\ UNCHANGED << text, model, model_prediction, model_confidence, detected_patterns,
                          suspicious_claims, predict_proba, decision_function, result, raised,
                          harness, concurrent, ui >>

\* suspicious_claims = claim_highlighter.identify_suspicious_claims(text),
\* then the summary, the action and the explanation, and the return.
Claims ==
    /\ pc = "claims"
    /\ \/ Raise("identify_suspicious_claims")
       \/ /\ calls' = Append(calls, "identify_suspicious_claims")
          /\ \E c \in ClaimOutputs :
               /\ suspicious_claims' = c
               /\ result' = FullResult(text, model_prediction, model_confidence,
                                       detected_patterns, emotional_tone, c)
          /\ pc' = "returned"
          /\ UNCHANGED << text, model, model_prediction, model_confidence, detected_patterns,
                          emotional_tone, predict_proba, decision_function, raised,
                          harness, concurrent, ui >>

Next ==
    \/ Call
    \/ Transform
    \/ Predict
    \/ ConfidenceProba
    \/ ConfidenceDecision
    \/ ConfidenceDefault
    \/ Detect
    \/ Tone
    \/ Claims

Spec == Init /\ [][Next]_vars

(***************************************************************************)
(* The methods of CredibilityAnalyzer applied on their own: the inputs are *)
(* drawn in the initial state, one action per method applies it.           *)
(***************************************************************************)
ClassifyInputs ==
    [ text : { Article(0, MinTextLen - 1, 0), Article(0, MinTextLen, 0) },
      prediction : { 0, 1 },
      confidence : ConfidenceGrid,
      patterns : PatternUniverse ]

PatternInputs == [ patterns : PatternUniverse ]

\* Mappings in which every signal is either 0 or saturated.
ExtremePatterns == { [ k \in NameSet |-> IF k \in on THEN Saturated[k] ELSE 0 ] : on \in SUBSET NameSet }

ConfidenceInputs ==
    [ confidence : ConfidenceGrid, patterns : PatternUniverse \cup ExtremePatterns ]

\* Confidences in steps of 0.05, pattern scores in steps of 0.01.
ScoreInputs ==
    [ confidence : { 3 * k : k \in 0..20 },
      prediction : { 0, 1 },
      pattern_score : { 36 * k : k \in 0..100 } ]

RiskInputs == [ credibility_score : 0..100 ]

ActionInputs == [ risk_level : valid_risk_levels ]

\* Candidates for format_json_output: a full result and a too-short-text
\* result, with up to two fields removed or replaced.
Absent == [t |-> "absent"]

SampleResult ==
    FullResult(Article(0, MinTextLen, 0), 1, 54, Score03,
               PyStr("Neutral/Analytical"), PyList(<< PyStr("They don't want you to know.") >>))

AllNames == RequiredNames \cup { "model_prediction", "pattern_score", "patterns" }

Alternatives(field) ==
    CASE field = "classification" -> { Absent, PyInt(1), PyNone, PyStr("UNKNOWN"), PyStr("") }
      [] field = "credibility_score" ->
           { Absent, PyStr("85"), PyFloat(PsUnit), PyInt(-1), PyInt(101), PyInt(0), PyInt(100),
             PyBool(TRUE) }
      [] field = "risk_level" -> { Absent, PyInt(1), PyStr("Critical") }
      [] field = "confidence" ->
           { Absent, PyStr("85"), PyFloat(PsUnit), PyInt(-1), PyInt(101), PyBool(FALSE) }
      [] field = "analysis_summary" -> { Absent, PyInt(1), PyStr("") }
      [] field = "key_indicators" ->
           { Absent, PyStr("High use of sensational language"), PyList(<< >>),
             PyList(<< PyInt(1) >>), PyList(<< PyStr("Clickbait patterns in text"), PyNone >>) }
      [] field = "emotional_tone" -> { Absent, PyNone, PyInt(1) }
      [] field = "suspicious_claims" -> { Absent, PyNone, PyList(<< PyInt(7) >>) }
      [] field = "recommended_action" -> { Absent, PyInt(1), PyStr("") }
      [] field = "explanation" -> { Absent, PyNone, PyStr("") }
      [] field = "model_prediction" -> { Absent, PyInt(2), PyStr("1") }
      [] field = "pattern_score" -> { Absent, PyFloat(PsUnit + 36), PyFloat(-36), PyStr("0.5") }
      [] field = "patterns" -> { Absent, PyNone }

Perturb(base, field, alt) ==
    IF alt = Absent THEN [ k \in (DOMAIN base) \ { field } |-> base[k] ]
    ELSE [ k \in (DOMAIN base) \cup { field } |-> IF k = field THEN alt ELSE base[k] ]

Candidates ==
    LET bases == { SampleResult, ShortTextResult }
        once == UNION { { Perturb(b, f, a) : a \in Alternatives(f) } : b \in bases, f \in AllNames }
    IN  bases \cup once
          \cup UNION { { Perturb(c, f, a) : a \in Alternatives(f) } : c \in once, f \in AllNames }

FormatInputs == [ analysis_result : Candidates ]

\* Texts for the validators: bodies around the two limits, padded with
\* up to MaxPad whitespace characters on either side.
ValidatorTexts ==
    { Article(l, b, r) : l \in 0..MaxPad, r \in 0..MaxPad,
                         b \in { 0, MIN_TEXT_LENGTH - 2, MIN_TEXT_LENGTH - 1, MIN_TEXT_LENGTH,
                                 MAX_TEXT_LENGTH - 2, MAX_TEXT_LENGTH - 1, MAX_TEXT_LENGTH,
                                 MAX_TEXT_LENGTH + 1 } }

ValidateInputs == [ text : ValidatorTexts ]

\* render_input_panel's button: the text of the text area and the
\* st.session_state it is rendered under (analyzing absent, False or True).
ButtonInputs ==
    [ article_text : ValidatorTexts,
      session_state : { NoKeys, Set(NoKeys, "analyzing", FALSE), Set(NoKeys, "analyzing", TRUE) } ]

\* load_model: what is on disk and what joblib.load does with it.
LoadInputs ==
    [ model_exists : BOOLEAN, vectorizer_exists : BOOLEAN,
      model_load : JoblibOutcomes("best_model.joblib"),
      vectorizer_load : JoblibOutcomes("tfidf_vectorizer.joblib") ]

InitFn ==
    /\ Idle /\ ConcurrentIdle /\ UIIdle
    /\ fn = "none"
    /\ ret = PyNone
    /\ args \in ClassifyInputs \cup PatternInputs \cup ConfidenceInputs \cup ScoreInputs
                  \cup RiskInputs \cup ActionInputs \cup FormatInputs \cup ValidateInputs
                  \cup ButtonInputs \cup LoadInputs

machine == << pc, text, model, calls, locals, result, raised >>

Apply(name, value) ==
    /\ fn = "none"
    /\ fn' = name
    /\ ret' = value
    /\ UNCHANGED << args, machine, concurrent, ui >>

ApplyPatternScore ==
    /\ args \in PatternInputs
    /\ Apply("calculate_pattern_score", calculate_pattern_score(args.patterns))

ApplyIndicators ==
    /\ args \in PatternInputs
    /\ Apply("extract_key_indicators",
             extract_key_indicators(args.patterns, Article(0, MinTextLen, 0)))

ApplyClassify ==
    /\ args \in ClassifyInputs
    /\ Apply("classify_credibility",
             classify_credibility(args.text, args.prediction, args.confidence, args.patterns))

ApplyScore ==
    /\ args \in ScoreInputs
    /\ Apply("calculate_credibility_score",
             calculate_credibility_score(args.confidence, args.prediction, args.pattern_score))

ApplyRisk ==
    /\ args \in RiskInputs
    /\ Apply("determine_risk_level", determine_risk_level(args.credibility_score))

ApplyConfidence ==
    /\ args \in ConfidenceInputs
    /\ Apply("calculate_confidence",
             calculate_confidence(args.confidence, pattern_consistency(args.patterns)))

ApplyAction ==
    /\ args \in ActionInputs
    /\ Apply("generate_recommended_action", generate_recommended_action(args.risk_level))

ApplyFormat ==
    /\ args \in FormatInputs
    /\ Apply("format_json_output", format_json_output(args.analysis_result))

ApplyValidateInput ==
    /\ args \in ValidateInputs
    /\ Apply("validate_input", validate_input(args.text))

ApplyValidatorValidate ==
    /\ args \in ValidateInputs
    /\ Apply("InputValidator.validate", InputValidator_validate(args.text))

ApplyButton ==
    /\ args \in ButtonInputs
    /\ Apply("render_input_panel", st_button(args.session_state, args.article_text))

ApplyLoadModel ==
    /\ args \in LoadInputs
    /\ Apply("load_model", load_model(args))

NextFn ==
    \/ ApplyPatternScore
    \/ ApplyIndicators
    \/ ApplyClassify
    \/ ApplyScore
    \/ ApplyRisk
    \/ ApplyConfidence
    \/ ApplyAction
    \/ ApplyFormat
    \/ ApplyValidateInput
    \/ ApplyValidatorValidate
    \/ ApplyButton
    \/ ApplyLoadModel

SpecFn == InitFn /\ [][NextFn]_vars

(***************************************************************************)
(* analyze called concurrently on one shared CredibilityAnalyzer, the      *)
(* instance load_analyzer caches.  Every call has its own frame; the calls *)
(* share the instance, whose __init__ sets no attribute, and the           *)
(* collaborators, here deterministic: each is a function of the text.      *)
(* A step of a call is one collaborator call with the code up to the next. *)
(***************************************************************************)
ShortText == Article(0, MinTextLen - 1, 0)
TextA == Article(0, MinTextLen, 0)
TextB == Article(0, MinTextLen + 1, 0)

ParTexts == { ShortText, TextA, TextB }
ParModels == { [proba |-> TRUE, decision |-> TRUE], [proba |-> FALSE, decision |-> TRUE] }

\* The deterministic collaborators: what each returns for each text.
Worlds ==
    { [ predict |-> [ x \in { TextA, TextB } |-> IF x = TextA THEN a ELSE 1 ],
        predict_proba |-> [ x \in { TextA, TextB } |->
                              IF x = TextA THEN << 14, 46 >> ELSE << 45, 15 >> ],
        decision_function |-> [ x \in { TextA, TextB } |-> IF x = TextA THEN -15 ELSE 31 ],
        detect_patterns |-> [ x \in { TextA, TextB } |-> IF x = TextA THEN Score07 ELSE d ],
        analyze_emotional_tone |-> [ x \in { TextA, TextB } |-> PyStr("Neutral/Analytical") ],
        identify_suspicious_claims |->
            [ x \in { TextA, TextB } |->
                IF x = TextA THEN PyList(<< >>)
                ELSE PyList(<< PyStr("They don't want you to know.") >>) ] ]
      : a \in { 0, 1 }, d \in { Score07, Zero } }

Callers == 1..NCalls

IdleFrame ==
    [ pc |-> "idle", text |-> PyNone, model |-> PyNone, model_prediction |-> PyNone,
      model_confidence |-> PyNone, detected_patterns |-> PyNone, emotional_tone |-> PyNone,
      suspicious_claims |-> PyNone ]

NotInvoked == [ text |-> PyNone, model |-> PyNone, result |-> PyNone ]

\* self.__dict__ after __init__: no attribute.
NoAttributes == [ name \in {} |-> PyNone ]

InitPar ==
    /\ Idle /\ HarnessIdle /\ UIIdle
    /\ frames = [ t \in Callers |-> IdleFrame ]
    /\ invoked = [ t \in Callers |-> NotInvoked ]
    /\ instance = NoAttributes
    /\ world \in Worlds

\* Variant: every call runs on the frame of call 1.
Frame_Shared(t) == frames[1]

\* The frame call t runs on: its own.
Frame(t) == frames[t]

\* Call t moves on with the given changes to its frame.
Step(t, frame) ==
    /\ frames' = [ frames EXCEPT ![t] = frame ]
    /\ UNCHANGED << invoked, instance, world, machine, harness, ui >>

\* The caller of t gets the result back.
Return(t, frame, value) ==
    /\ frames' = [ frames EXCEPT ![t] = frame ]
    /\ invoked' = [ invoked EXCEPT ![t].result = value ]
    /\ UNCHANGED << instance, world, machine, harness, ui >>

\* analyze(text, model, vectorizer) is called on the shared instance.
PCall(t) ==
    /\ Frame(t).pc = "idle"
    /\ invoked[t] = NotInvoked
    /\ \E txt \in ParTexts, m \in ParModels :
         /\ invoked' = [ invoked EXCEPT ![t] =
                           [ text |-> txt, model |-> m,
                             result |-> IF InputCheck(txt) # PyNone THEN InputCheck(txt)
                                        ELSE PyNone ] ]
         /\ frames' = [ frames EXCEPT ![t] =
                          [ Frame(t) EXCEPT !.text = txt, !.model = m,
                                            !.pc = IF InputCheck(txt) # PyNone
                                                   THEN "returned" ELSE "transform" ] ]
    /\ UNCHANGED << instance, world, machine, harness, ui >>

PTransform(t) ==
    /\ Frame(t).pc = "transform"
    /\ Step(t, [ Frame(t) EXCEPT !.pc = "predict" ])

PPredict(t) ==
    /\ Frame(t).pc = "predict"
    /\ Step(t, [ Frame(t) EXCEPT !.model_prediction = world.predict[Frame(t).text],
                                 !.pc = "confidence" ])

PConfidence(t) ==
    /\ Frame(t).pc = "confidence"
    /\ LET f == Frame(t)
           c == IF f.model.proba THEN max(world.predict_proba[f.text])
                ELSE IF f.model.decision THEN MarginConfidence(world.decision_function[f.text])
                ELSE Unit \div 2
       IN  Step(t, [ f EXCEPT !.model_confidence = c, !.pc = "detect" ])

\* Variant: one detector serves all calls and finds nothing once a call it
\* served has returned.
Detected_Shared(t) ==
    IF \E u \in Callers \ { t } : frames[u].pc = "returned" /\ frames[u].text.body >= MinTextLen
    THEN Zero
    ELSE world.detect_patterns[Frame(t).text]

\* pattern_detector = PatternDetector(); pattern_detector.detect_patterns(text):
\* a detector made for this call is asked about this call's text.
Detected(t) == world.detect_patterns[Frame(t).text]

PDetect(t) ==
    /\ Frame(t).pc = "detect"
    /\ Step(t, [ Frame(t) EXCEPT !.detected_patterns = Detected(t), !.pc = "tone" ])

PTone(t) ==
    /\ Frame(t).pc = "tone"
    /\ Step(t, [ Frame(t) EXCEPT !.emotional_tone = world.analyze_emotional_tone[Frame(t).text],
                                 !.pc = "claims" ])

PClaims(t) ==
    /\ Frame(t).pc = "claims"
    /\ LET f == Frame(t)
           claims == world.identify_suspicious_claims[f.text]
       IN  Return(t, [ f EXCEPT !.suspicious_claims = claims, !.pc = "returned" ],
                  FullResult(f.text, f.model_prediction, f.model_confidence,
                             f.detected_patterns, f.emotional_tone, claims))

NextPar ==
    \E t \in Callers :
        \/ PCall(t)
        \/ PTransform(t)
        \/ PPredict(t)
        \/ PConfidence(t)
        \/ PDetect(t)
        \/ PTone(t)
        \/ PClaims(t)

SpecPar == InitPar /\ [][NextPar]_vars

(***************************************************************************)
(* The UI script (src/streamlit_app.py).  Every user interaction runs main *)
(* from the top; st.session_state survives from run to run.  A step is a   *)
(* stretch of main between two points where the run can go different ways. *)
(***************************************************************************)
\* The texts the text area may hold: empty, 49 characters, 50 characters of
\* which 48 lie between whitespace, 50, 50000 and 50001 characters.
UITexts ==
    { Article(0, 0, 0), Article(0, MIN_TEXT_LENGTH - 1, 0), Article(1, MIN_TEXT_LENGTH - 2, 1),
      Article(0, MIN_TEXT_LENGTH, 0), Article(0, MAX_TEXT_LENGTH, 0),
      Article(0, MAX_TEXT_LENGTH + 1, 0) }

\* What analyzer.analyze(article_text, model, vectorizer) may return.
AnalyzeReturns(txt) ==
    IF InputCheck(txt) # PyNone THEN { InputCheck(txt) }
    ELSE { FullResult(txt, 1, 54, Zero, PyStr("Neutral/Analytical"), PyList(<< >>)),
           FullResult(txt, 1, 46, Score05, PyStr("Neutral/Analytical"), PyList(<< >>)),
           FullResult(txt, 0, 54, Saturated, PyStr("Neutral/Analytical"),
                      PyList(<< PyStr("They don't want you to know.") >>)) }

\* Python truthiness of st.session_state.results
ResultsTruthy(value) == value # PyNone /\ DOMAIN value # {}

InitUI ==
    /\ Idle /\ HarnessIdle /\ ConcurrentIdle
    /\ session_state = NoKeys
    /\ script = "waiting"
    /\ article_text = PyNone
    /\ results = PyNone
    /\ shown = PyNone
    /\ button = PyNone

elsewhere == << machine, harness, concurrent >>

\* A run of main begins: the session defaults are set, the sidebar rendered.
RunStart ==
    /\ script = "waiting"
    /\ session_state' = Default(Default(Default(Default(session_state,
                            "results", PyNone), "analyzed", FALSE),
                            "article_text", Article(0, 0, 0)), "analyzing", FALSE)
    /\ script' = "load"
    /\ article_text' = PyNone
    /\ results' = PyNone
    /\ shown' = PyNone
    /\ button' = PyNone
    /\ UNCHANGED elsewhere

\* load_analyzer() or load_model() raises: st.stop() ends the run.
LoadFails ==
    /\ script = "load"
    /\ script' = "waiting"
    /\ UNCHANGED << session_state, article_text, results, shown, button, elsewhere >>

\* The analyzer, the model and the vectorizer are loaded.
LoadSucceeds ==
    /\ script = "load"
    /\ script' = "input"
    /\ UNCHANGED << session_state, article_text, results, shown, button, elsewhere >>

\* render_input_panel: the text of the text area is stored and returned; a
\* click of the Analyze button sets analyze_clicked.
render_input_panel ==
    /\ script = "input"
    /\ \E txt \in UITexts, analyze_button \in BOOLEAN :
         /\ article_text' = txt
         /\ button' = st_button(session_state, txt)
         /\ session_state' =
              LET stored == Default(Set(session_state, "article_text", txt),
                                    "analyze_clicked", FALSE)
              IN  IF analyze_button THEN Set(stored, "analyze_clicked", TRUE) ELSE stored
    /\ script' = "results"
    /\ UNCHANGED << results, shown, elsewhere >>

\* st.session_state.get("analyze_clicked", False) is False.
NoClick ==
    /\ script = "results"
    /\ ~session_state["analyze_clicked"]
    /\ script' = "display"
    /\ UNCHANGED << session_state, article_text, results, shown, button, elsewhere >>

\* The click is handled and validate_input rejects the text.
RejectClick ==
    /\ script = "results"
    /\ session_state["analyze_clicked"]
    /\ ~validate_input(article_text)[1]
    /\ session_state' = Set(session_state, "analyze_clicked", FALSE)
    /\ script' = "display"
    /\ UNCHANGED << article_text, results, shown, button, elsewhere >>

\* Variant: the previous results are kept when the analysis starts.
StartAnalysis_Keep ==
    /\ script = "results"
    /\ session_state["analyze_clicked"]
    /\ validate_input(article_text)[1]
    /\ session_state' = Set(session_state, "analyzing", TRUE)
    /\ script' = "analyze"
    /\ UNCHANGED << article_text, results, shown, button, elsewhere >>

\* The click is handled and the text is valid: the previous results are
\* cleared and analyzing is set, up to the call of analyzer.analyze.
StartAnalysis ==
    /\ script = "results"
    /\ session_state["analyze_clicked"]
    /\ validate_input(article_text)[1]
    /\ session_state' = Set(Set(Set(session_state, "results", PyNone), "analyzed", FALSE),
                            "analyzing", TRUE)
    /\ script' = "analyze"
    /\ UNCHANGED << article_text, results, shown, button, elsewhere >>

\* finally: the button state is reset.
Finally(state) == Set(Set(state, "analyze_clicked", FALSE), "analyzing", FALSE)

\* analyzer.analyze returns: the result is stored, then the finally block.
AnalyzeReturned ==
    /\ script = "analyze"
    /\ \E r \in AnalyzeReturns(article_text) :
         /\ results' = r
         /\ session_state' = Finally(Set(Set(session_state, "results", r), "analyzed", TRUE))
    /\ script' = "display"
    /\ UNCHANGED << article_text, shown, button, elsewhere >>

\* Variant: the flags are not reset after an exception.
AnalyzeRaised_NoFinally ==
    /\ script = "analyze"
    /\ session_state' = Set(Set(session_state, "results", PyNone), "analyzed", FALSE)
    /\ script' = "display"
    /\ UNCHANGED << article_text, results, shown, button, elsewhere >>

\* analyzer.analyze raises an Exception: the except block, then the finally block.
AnalyzeRaised ==
    /\ script = "analyze"
    /\ session_state' = Finally(Set(Set(session_state, "results", PyNone), "analyzed", FALSE))
    /\ script' = "display"
    /\ UNCHANGED << article_text, results, shown, button, elsewhere >>

\* analyzer.analyze raises what except Exception does not catch: only the
\* finally block runs and the exception ends the run of main.
AnalyzeAborted ==
    /\ script = "analyze"
    /\ session_state' = Finally(session_state)
    /\ script' = "waiting"
    /\ UNCHANGED << article_text, results, shown, button, elsewhere >>

\* The results column: the six sections when analyzed and results, else the hint.
Display ==
    /\ script = "display"
    /\ shown' = IF session_state["analyzed"] /\ ResultsTruthy(session_state["results"])
                THEN session_state["results"]
                ELSE PyStr("Enter an article in the input panel and click 'Analyze Article' to see results.")
    /\ script' = "waiting"
    /\ UNCHANGED << session_state, article_text, results, button, elsewhere >>

NextUI ==
    \/ RunStart
    \/ LoadFails
    \/ LoadSucceeds
    \/ render_input_panel
    \/ NoClick
    \/ RejectClick
    \/ StartAnalysis
    \/ AnalyzeReturned
    \/ AnalyzeRaised
    \/ AnalyzeAborted
    \/ Display

SpecUI == InitUI /\ [][NextUI]_vars

(***************************************************************************)
(* Properties.                                                             *)
(***************************************************************************)
Returned == pc = "returned"
FullPath == Returned /\ calls # << >>

\* The text is empty, not a string, or has fewer than 50 characters between
\* its first and last non-whitespace character.
Insufficient(txt) == txt.t # "str" \/ txt.body < MinTextLen

\* C1: for a text that is empty, not a string or of stripped length < 50,
\* analyze returns UNVERIFIED / score 0 / High Risk / confidence 0 and no
\* collaborator operation is invoked between the call and the return
\* (nor does any collaborator exception leave the call).
C1_ShortCircuit ==
    (pc # "idle" /\ Insufficient(text)) =>
        /\ Returned
        /\ calls = << >>
        /\ raised = "none"
        /\ result.classification = PyStr("UNVERIFIED")
        /\ result.credibility_score = PyInt(0)
        /\ result.risk_level = PyStr("High Risk")
        /\ result.confidence = PyInt(0)

\* A text of 50 characters whose stripped length is 49 has been answered.
C1_Witness ==
    /\ Returned
    /\ text.t = "str" /\ len(text) >= MinTextLen /\ text.body = MinTextLen - 1
    /\ result.classification = PyStr("UNVERIFIED")
    /\ calls = << >>

\* The decision table of the claim, on the pattern score (in 1/PsUnit) and
\* the confidence (in 1/Unit).
C2_Label(length, prediction, confidence, score) ==
    IF length < 50 THEN "UNVERIFIED"
    ELSE IF prediction = 0 /\ 100 * confidence > 75 * Unit
         THEN (IF 10 * score > 7 * PsUnit THEN "FAKE" ELSE "MISLEADING")
    ELSE IF prediction = 1 /\ 100 * confidence > 75 * Unit
         THEN (IF 10 * score < 3 * PsUnit THEN "REAL" ELSE "MISLEADING")
    ELSE IF 10 * confidence < 5 * Unit THEN "UNVERIFIED"
    ELSE IF 10 * score > 5 * PsUnit THEN "MISLEADING"
    ELSE "REAL"

\* C2: classify_credibility returns one of the four labels, the label of
\* the first matching rule of the decision table; the boundary values
\* 0.75, 0.5, 0.7, 0.3 and 0.5 fall on the non-strict side.
C2_ClassificationTable ==
    fn = "classify_credibility" =>
        /\ ret \in valid_classifications
        /\ ret = C2_Label(len(args.text), args.prediction, args.confidence,
                          calculate_pattern_score(args.patterns))
        /\ (/\ len(args.text) >= 50 /\ args.prediction = 0 /\ 10 * args.confidence = 9 * Unit
            /\ 10 * calculate_pattern_score(args.patterns) = 7 * PsUnit) => ret = "MISLEADING"
        /\ (/\ len(args.text) >= 50 /\ 4 * args.confidence = 3 * Unit
            /\ 2 * calculate_pattern_score(args.patterns) <= PsUnit) => ret = "REAL"
        /\ (/\ len(args.text) >= 50 /\ 2 * args.confidence = Unit
            /\ 2 * calculate_pattern_score(args.patterns) = PsUnit) => ret = "REAL"
        /\ (/\ len(args.text) >= 50 /\ args.prediction = 1 /\ 10 * args.confidence = 9 * Unit
            /\ 10 * calculate_pattern_score(args.patterns) = 3 * PsUnit) => ret = "MISLEADING"

\* prediction 0, confidence 0.9 and a pattern score of exactly 0.7 were classified.
C2_Witness ==
    /\ fn = "classify_credibility"
    /\ len(args.text) >= 50 /\ args.prediction = 0 /\ 10 * args.confidence = 9 * Unit
    /\ 10 * calculate_pattern_score(args.patterns) = 7 * PsUnit
    /\ ret = "MISLEADING"

\* 0.70*M + 0.30*(1 - pattern_score)*100 of the claim, in 1/12000, for a
\* confidence in 1/Unit and a pattern score in 1/PsUnit.
C3_Blend(prediction, confidence, score) ==
    LET M == IF prediction = 1 THEN 100 * confidence * Unit ELSE 100 * (Unit - confidence) * Unit
    IN  (70 * M + 30 * 100 * (PsUnit - score)) \div 30

C3_BlendDen == (100 * PsUnit) \div 30

\* n is an integer nearest to num / den.
C3_Nearest(n, num, den) == 2 * Abs(n * den - num) <= den

C3_Top(a) ==
    \/ a.prediction = 1 /\ a.confidence = Unit /\ a.pattern_score = 0
    \/ a.prediction = 0 /\ a.confidence = 0 /\ a.pattern_score = 0

C3_Bottom(a) ==
    \/ a.prediction = 1 /\ a.confidence = 0 /\ a.pattern_score = PsUnit
    \/ a.prediction = 0 /\ a.confidence = Unit /\ a.pattern_score = PsUnit

\* C3 as claimed: the nearest integer to the blend, in [0, 100], and 100
\* only at (prediction 1, confidence 1, score 0) or its mirror, 0 only at
\* the opposite extremes.
C3_Original ==
    fn = "calculate_credibility_score" =>
        /\ ret \in 0..100
        /\ C3_Nearest(ret, C3_Blend(args.prediction, args.confidence, args.pattern_score),
                      C3_BlendDen)
        /\ (ret = 100 => C3_Top(args))
        /\ (ret = 0 => C3_Bottom(args))

\* C3 as amended: calculate_credibility_score returns an integer nearest to
\* the blend, in [0, 100]; it is 100 at the two top extremes and 0 at the
\* two bottom extremes, and also wherever the blend is above 99.5,
\* respectively below 0.5.
C3_RoundedBlend ==
    fn = "calculate_credibility_score" =>
        LET num == C3_Blend(args.prediction, args.confidence, args.pattern_score)
        IN  /\ ret \in 0..100
            /\ C3_Nearest(ret, num, C3_BlendDen)
            /\ (C3_Top(args) => ret = 100)
            /\ (C3_Bottom(args) => ret = 0)
            /\ (2 * num > 199 * C3_BlendDen => ret = 100)
            /\ (2 * num < C3_BlendDen => ret = 0)

\* A score of 100 was returned for an input that is not a top extreme.
C3_Witness ==
    /\ fn = "calculate_credibility_score"
    /\ ret = 100
    /\ ~C3_Top(args)

\* The risk tier of the claim for a credibility score.
C4_Tier(score) ==
    IF score >= 75 THEN "Low Risk"
    ELSE IF score >= 40 /\ score < 75 THEN "Medium Risk"
    ELSE "High Risk"

\* C4: in every result analyze returns, on the full path and on both
\* insufficient-input paths, risk_level is the threshold function of that
\* result's credibility_score (>= 75 Low, 40..74 Medium, < 40 High).
C4_RiskOfScore ==
    Returned => result.risk_level = PyStr(C4_Tier(result.credibility_score.n))

\* A full-path result with a score on a tier boundary was returned.
C4_Witness ==
    /\ FullPath
    /\ result.credibility_score.n = 75
    /\ result.risk_level = PyStr("Low Risk")

C4_Witness40 ==
    /\ FullPath
    /\ result.credibility_score.n = 40
    /\ result.risk_level = PyStr("Medium Risk")

C4_Witness39 ==
    /\ FullPath
    /\ result.credibility_score.n = 39
    /\ result.risk_level = PyStr("High Risk")

\* The two results analyze returns without running the pipeline.
InsufficientResults == { EmptyInputResult, ShortTextResult }

\* C5 as claimed: equal risk_level implies equal recommended_action for any
\* two results analyze can return, the empty-input and too-short-input
\* results included.
C5_Original ==
    Returned =>
        \A other \in InsufficientResults :
            other.risk_level = result.risk_level
                => other.recommended_action = result.recommended_action

\* The one action string of each risk tier.
C5_TierAction(risk_level) ==
    CASE risk_level = "High Risk" -> HighRiskAction
      [] risk_level = "Medium Risk" -> MediumRiskAction
      [] risk_level = "Low Risk" -> LowRiskAction

\* C5 as amended: among the results of the full path recommended_action is
\* determined solely by risk_level, one fixed string per tier and the three
\* strings distinct; the empty-input and too-short-input results are High
\* Risk but carry their own placeholder actions.
C5_ActionOfTier ==
    /\ Cardinality({ HighRiskAction, MediumRiskAction, LowRiskAction }) = 3
    /\ FullPath =>
          /\ result.risk_level.s \in valid_risk_levels
          /\ result.recommended_action = PyStr(C5_TierAction(result.risk_level.s))
    /\ (Returned /\ ~FullPath) =>
          /\ result \in InsufficientResults
          /\ result.risk_level = PyStr("High Risk")
          /\ result.recommended_action.s \notin { HighRiskAction, MediumRiskAction, LowRiskAction }

\* A full-path result in the tier the insufficient-input results are in.
C5_Witness ==
    /\ FullPath
    /\ result.risk_level = PyStr("High Risk")
    /\ result.recommended_action = PyStr(HighRiskAction)

\* C6: every result of analyze has 0 <= credibility_score <= 100 and
\* 0 <= confidence <= 100, and its pattern_score (carried by the full-path
\* results) lies in [0, 1], is 0 exactly when all nine signals are 0 and 1
\* exactly when every count is at or above its cap and every ratio is 1.
C6_Ranges ==
    Returned =>
        /\ result.credibility_score.n \in 0..100
        /\ result.confidence.n \in 0..100
        /\ "pattern_score" \in DOMAIN result =>
              LET score == result.pattern_score.n
                  p == result.patterns.map
              IN  /\ 0 <= score /\ score <= PsUnit
                  /\ score = 0 <=> \A k \in NameSet : Get(p, k) = 0
                  /\ score = PsUnit <=>
                        /\ \A k \in CountNames : Get(p, k) >= Cap[k]
                        /\ \A k \in RatioNames : Get(p, k) = Unit

\* A result whose pattern score is 1 with a count past its cap.
C6_Witness ==
    /\ FullPath
    /\ result.pattern_score = PyFloat(PsUnit)
    /\ \E k \in CountNames : Get(detected_patterns, k) > Cap[k]
    /\ result.confidence.n \in 0..100

\* C7 as claimed: no result that violates the output contract checked by
\* format_json_output is ever returned by analyze.
C7_Validated ==
    Returned => format_json_output(result).ok

\* The type the field table gives each of the ten required fields.
TableType ==
    [ classification |-> "str", credibility_score |-> "int", risk_level |-> "str",
      confidence |-> "int", analysis_summary |-> "str", key_indicators |-> "list",
      emotional_tone |-> "str", suspicious_claims |-> "list", recommended_action |-> "str",
      explanation |-> "str" ]

\* The ten required fields in declaration order.
TableOrder ==
    << "classification", "credibility_score", "risk_level", "confidence", "analysis_summary",
       "key_indicators", "emotional_tone", "suspicious_claims", "recommended_action",
       "explanation" >>

\* The range or set constraint the validator puts on a well-typed required field.
TableValueOk(f, v) ==
    /\ f = "classification" => v.s \in { "REAL", "FAKE", "MISLEADING", "UNVERIFIED" }
    /\ f = "risk_level" => v.s \in { "Low Risk", "Medium Risk", "High Risk" }
    /\ f \in { "credibility_score", "confidence" } => IntOf(v) >= 0 /\ IntOf(v) <= 100
    /\ f \in { "key_indicators", "suspicious_claims" } =>
          \A k \in 1..Len(v.items) : v.items[k].t = "str"

\* Required field f of candidate c is present, an instance of its type and within its constraint.
TableFieldOk(c, f) ==
    /\ f \in DOMAIN c
    /\ isinstance(c[f], TableType[f])
    /\ TableValueOk(f, c[f])

\* Candidate c breaks the field table of spec section 3: one of the ten
\* required fields is missing, wrongly typed or out of range, or
\* model_prediction is not 0 or 1, pattern_score is outside [0, 1], the
\* patterns mapping is missing, key_indicators is empty, or analysis_summary,
\* recommended_action or explanation is empty.
C8_BreaksTable(c) ==
    \/ \E f \in DOMAIN TableType : ~TableFieldOk(c, f)
    \/ "model_prediction" \notin DOMAIN c
    \/ "model_prediction" \in DOMAIN c
          /\ ~(c.model_prediction.t = "int" /\ c.model_prediction.n \in { 0, 1 })
    \/ "pattern_score" \notin DOMAIN c
    \/ "pattern_score" \in DOMAIN c
          /\ ~(/\ c.pattern_score.t = "float"
               /\ c.pattern_score.n >= 0 /\ c.pattern_score.n <= PsUnit)
    \/ "patterns" \notin DOMAIN c
    \/ "patterns" \in DOMAIN c /\ c.patterns.t # "dict"
    \/ c.key_indicators.items = << >>
    \/ \E f \in { "analysis_summary", "recommended_action", "explanation" } : c[f].s = ""

C9_First(c) ==
    LET bad == { i \in 1..Len(TableOrder) : ~TableFieldOk(c, TableOrder[i]) }
    IN  IF bad = {} THEN Len(TableOrder) + 1
        ELSE CHOOSE i \in bad : \A j \in bad : i <= j

C9_Outcome ==
    fn = "format_json_output" =>
        LET c == args.analysis_result
            missing == { f \in DOMAIN TableType : f \notin DOMAIN c }
            first == C9_First(c)
        IN  /\ missing # {} =>
                  /\ ~ret.ok /\ ret.kind = "missing"
                  /\ { ret.fields[i] : i \in 1..Len(ret.fields) } = missing
                  /\ Len(ret.fields) = Cardinality(missing)
            /\ (missing = {} /\ first <= Len(TableOrder)) =>
                  /\ ~ret.ok /\ ret.kind \in { "type", "value" }
                  /\ ret.fields = << TableOrder[first] >>
                  /\ ret.kind = "type" <=> ~isinstance(c[TableOrder[first]],
                                                       TableType[TableOrder[first]])
            /\ ~ret.ok => "output" \notin DOMAIN ret

\* C9: a candidate lacking required fields is rejected with an error that
\* lists every missing field, before any type or value check; otherwise the
\* error names the first field in declaration order whose type or value is
\* wrong; a rejected candidate yields no output and is left unmodified.
C9_Rejection == [](C9_Outcome) /\ [][args' = args]_vars

\* A candidate with a field missing and an earlier field ill-typed was
\* rejected for the missing field.
C9_Witness ==
    /\ fn = "format_json_output"
    /\ ret.ok = FALSE /\ ret.kind = "missing" /\ ret.fields = << "confidence" >>
    /\ ~isinstance(args.analysis_result.classification, "str")

\* C10 as claimed: every dictionary analyze returns contains all thirteen
\* documented keys.
C10_AllKeys ==
    Returned => AllNames \subseteq DOMAIN result

\* The nine threshold rules of the claim, in declaration order, on the raw
\* signals (ratios in 1/Unit), a missing signal counting as 0.
C11_Rule(p) ==
    LET v(k) == IF k \in DOMAIN p THEN p[k] ELSE 0
    IN  << v("sensational_phrases") > 3, 10 * v("excessive_caps") > Unit,
           v("vague_sources") > 2, v("conspiracy_framing") > 0,
           v("emotional_manipulation") > 2, 10 * v("one_sided") > 7 * Unit,
           10 * v("no_evidence") > 7 * Unit, v("extreme_adjectives") > 5,
           v("clickbait") > 0 >>

\* The sentence of each rule, and the two fallback sentences.
C11_Sentence ==
    << "High use of sensational language", "Excessive capitalization detected",
       "Multiple vague source references", "Conspiracy framing language present",
       "Emotional manipulation tactics detected", "One-sided narrative without counterpoints",
       "Lack of verifiable evidence or data", "Overuse of extreme adjectives",
       "Clickbait patterns in text" >>

C11_Fallback == << "Balanced language and structure", "Appropriate use of sources" >>

\* C11: extract_key_indicators returns a list of length >= 1 holding exactly
\* one sentence per true threshold rule, in rule-declaration order and
\* without duplicates; when no rule is true it returns exactly the two
\* fallback sentences, which never accompany a rule sentence.
C11_Indicators ==
    fn = "extract_key_indicators" =>
        LET rule == C11_Rule(args.patterns)
            said == { ret[i] : i \in 1..Len(ret) }
            rules == { C11_Sentence[r] : r \in 1..9 }
            fallback == { C11_Fallback[i] : i \in 1..2 }
        IN  /\ Len(ret) >= 1
            /\ Cardinality(said) = Len(ret)
            /\ Cardinality(rules \cup fallback) = 11
            /\ \A r \in 1..9 : rule[r] <=> C11_Sentence[r] \in said
            /\ \A i, j \in 1..Len(ret) :
                 \A r, q \in 1..9 :
                    (i < j /\ ret[i] = C11_Sentence[r] /\ ret[j] = C11_Sentence[q]) => r < q
            /\ (\A r \in 1..9 : ~rule[r]) <=> ret = C11_Fallback
            /\ said \cap fallback # {} => said \cap rules = {}
            /\ said \subseteq rules \cup fallback

\* A mapping with a key missing produced the eight sentences of the other rules.
C11_Witness ==
    /\ fn = "extract_key_indicators"
    /\ DOMAIN args.patterns # NameSet
    /\ "conspiracy_framing" \notin DOMAIN args.patterns
    /\ Len(ret) = 8
    /\ ret[4] = "Emotional manipulation tactics detected"

\* The fallback pair was returned for a mapping with a signal above zero.
C11_WitnessFallback ==
    /\ fn = "extract_key_indicators"
    /\ ret = C11_Fallback
    /\ \E k \in DOMAIN args.patterns : args.patterns[k] > 0

\* The mapping p with the count signal k one higher (a missing k counts as 0).
C12_Bump(p, k) ==
    [ x \in (DOMAIN p) \cup { k } |->
        IF x = k THEN (IF k \in DOMAIN p THEN p[k] ELSE 0) + 1 ELSE p[x] ]

\* The saturation cap the claim gives each count signal.
C12_Cap ==
    [ sensational_phrases |-> 5, vague_sources |-> 3, conspiracy_framing |-> 2,
      emotional_manipulation |-> 4, extreme_adjectives |-> 6, clickbait |-> 2 ]

\* C12: with the other signals fixed, one more of a count signal strictly
\* increases calculate_pattern_score while the count is below its cap and
\* leaves it unchanged once the count is at or above the cap.
C12_Monotone ==
    fn = "calculate_pattern_score" =>
        \A k \in DOMAIN C12_Cap :
            LET count == IF k \in DOMAIN args.patterns THEN args.patterns[k] ELSE 0
                more == calculate_pattern_score(C12_Bump(args.patterns, k))
            IN  /\ count < C12_Cap[k] => more > ret
                /\ count >= C12_Cap[k] => more = ret

\* A score was computed with one count just below its cap and the others at theirs.
C12_Witness ==
    /\ fn = "calculate_pattern_score"
    /\ DOMAIN args.patterns = NameSet
    /\ args.patterns["extreme_adjectives"] = 5
    /\ args.patterns["clickbait"] = 2
    /\ ret < PsUnit

\* A score was computed with a count past its cap.
C12_WitnessPast ==
    /\ fn = "calculate_pattern_score"
    /\ DOMAIN args.patterns = NameSet
    /\ args.patterns["clickbait"] = 3
    /\ ret = PsUnit

\* The collaborator operations of the full path, in pipeline order, for a
\* classifier that offers the given confidence sources.
C15_Pipeline(m) ==
    << "vectorizer.transform", "model.predict" >>
      \o (IF m.proba THEN << "model.predict_proba" >>
          ELSE IF m.decision THEN << "model.decision_function" >> ELSE << >>)
      \o << "detect_patterns", "analyze_emotional_tone", "identify_suspicious_claims" >>

C15_Outcome ==
    /\ raised # "none" =>
          /\ pc = "raised"
          /\ result = PyNone
          /\ calls # << >> /\ calls[Len(calls)] = raised
          /\ raised \in { C15_Pipeline(model)[i] : i \in 1..Len(C15_Pipeline(model)) }
    /\ pc # "idle" /\ ~Insufficient(text) =>
          /\ Len(calls) <= Len(C15_Pipeline(model))
          /\ calls = SubSeq(C15_Pipeline(model), 1, Len(calls))
          /\ Cardinality({ calls[i] : i \in 1..Len(calls) }) = Len(calls)
          /\ (pc = "returned" <=> (calls = C15_Pipeline(model) /\ raised = "none"))

\* C15: when a collaborator of the full path raises, analyze returns no
\* result, the failure of that collaborator is what leaves the call, no later
\* step of the pipeline runs and no collaborator is called twice.
C15_Propagation == [](C15_Outcome) /\ [][pc # "raised"]_vars

\* The last collaborator of the pipeline raised after the five before it returned.
C15_Witness ==
    /\ pc = "raised"
    /\ raised = "identify_suspicious_claims"
    /\ Len(calls) = 6
    /\ emotional_tone # PyNone
    /\ result = PyNone

\* m is the largest element of the sequence seq.
C16_Largest(m, seq) ==
    /\ \E i \in 1..Len(seq) : seq[i] = m
    /\ \A i \in 1..Len(seq) : seq[i] <= m

\* The call has derived its model confidence.
C16_Derived ==
    \/ pc \in { "detect", "tone", "claims" }
    \/ FullPath
    \/ pc = "raised" /\ raised \in { "detect_patterns", "analyze_emotional_tone",
                                     "identify_suspicious_claims" }

\* C16: on the full path the model confidence is the largest class
\* probability whenever the classifier offers predict_proba (the decision
\* function is then not consulted); otherwise min(1.0, 0.5 + |margin|/10)
\* of the decision margin; otherwise 0.5.  In the two fallback cases it lies
\* in [0.5, 1.0].
C16_Confidence ==
    C16_Derived =>
        /\ model.proba =>
              /\ predict_proba.t = "ndarray"
              /\ C16_Largest(model_confidence, predict_proba.items)
              /\ decision_function = PyNone
              /\ \A i \in 1..Len(calls) : calls[i] # "model.decision_function"
        /\ (~model.proba /\ model.decision) =>
              /\ decision_function.t = "float64" /\ predict_proba = PyNone
              /\ LET d == decision_function.n
                     m == IF d < 0 THEN -d ELSE d
                 IN  model_confidence = (IF 30 + m > 60 THEN 60 ELSE 30 + m)
              /\ 2 * model_confidence >= Unit /\ model_confidence <= Unit
        /\ (~model.proba /\ ~model.decision) =>
              /\ 2 * model_confidence = Unit
              /\ predict_proba = PyNone /\ decision_function = PyNone
        /\ FullPath => result.confidence.n
                         = calculate_confidence(model_confidence, pattern_consistency(detected_patterns))

\* A classifier offering both sources gave a largest probability below 0.5,
\* and it was used.
C16_Witness ==
    /\ FullPath
    /\ model.proba /\ model.decision
    /\ 2 * model_confidence < Unit
    /\ predict_proba.items = << 29, 2, 29 >>

\* A negative decision margin beyond the cap gave confidence 1.0.
C16_WitnessMargin ==
    /\ FullPath
    /\ ~model.proba /\ model.decision
    /\ decision_function.n = -31
    /\ model_confidence = Unit

\* The nine normalized values of the claim, in 1/Unit.
C17_Normalized(p) ==
    LET v(k) == IF k \in DOMAIN p THEN p[k] ELSE 0
        capped(k) == IF v(k) >= C12_Cap[k] THEN Unit ELSE (v(k) * Unit) \div C12_Cap[k]
    IN  << capped("sensational_phrases"), v("excessive_caps"), capped("vague_sources"),
           capped("conspiracy_framing"), capped("emotional_manipulation"), v("one_sided"),
           v("no_evidence"), capped("extreme_adjectives"), capped("clickbait") >>

\* Twice the population variance, as mean of squares minus square of mean, in 1/VarDen.
C17_TwoV(p) ==
    LET n == C17_Normalized(p)
        S == SumSeq(n)
        Q == SumSeq([ i \in 1..9 |-> n[i] * n[i] ])
    IN  18 * (9 * Q - S * S)

\* pattern_consistency = 1 - min(1, 2*V), in 1/VarDen.
C17_Consistency(p) == VarDen - (IF C17_TwoV(p) > VarDen THEN VarDen ELSE C17_TwoV(p))

\* C17: the confidence of every full-path result is round((0.6 *
\* model_confidence + 0.4 * pattern_consistency) * 100) with
\* pattern_consistency = 1 - min(1, 2V), V the population variance of the
\* nine normalized signals; pattern_consistency is 1 exactly when the nine
\* normalized values are equal, that is all zero or all saturated.
C17_ConfidenceField ==
    FullPath =>
        LET n == C17_Normalized(detected_patterns)
            cons == C17_Consistency(detected_patterns)
            num == model_confidence * VarDen + 40 * cons
        IN  /\ result.confidence.t = "int"
            /\ C3_Nearest(result.confidence.n, num, VarDen)
            /\ (num % VarDen = 0 => result.confidence.n * VarDen = num)
            /\ cons = pattern_consistency(detected_patterns)
            /\ cons = VarDen <=> \A i, j \in 1..9 : n[i] = n[j]
            /\ (\A i, j \in 1..9 : n[i] = n[j])
                  <=> ((\A i \in 1..9 : n[i] = 0) \/ (\A i \in 1..9 : n[i] = Unit))

\* A result whose signals disagree: consistency below 1 and a confidence
\* that differs from the model confidence.
C17_Witness ==
    /\ FullPath
    /\ C17_Consistency(detected_patterns) < VarDen
    /\ 10 * model_confidence = 9 * Unit
    /\ result.confidence.n < 90

\* A result with all signals saturated, one count past its cap: consistency 1.
C17_WitnessSaturated ==
    /\ FullPath
    /\ C17_Consistency(detected_patterns) = VarDen
    /\ \E k \in CountNames : Get(detected_patterns, k) > Cap[k]
    /\ result.confidence.n = model_confidence + 40

\* The pair the claim gives a text of n characters.
C18_Pair(n) ==
    IF n < 50 THEN << FALSE, "Article text must be at least 50 characters" >>
    ELSE IF n > 50000 THEN << FALSE, "Article text must not exceed 50,000 characters" >>
    ELSE << TRUE, "" >>

\* C18: validate_input(text) and InputValidator.validate(text) return the
\* same pair: (True, "") exactly when 50 <= len(text) <= 50000, the
\* at-least-50 message below 50 and the not-exceed-50,000 message above
\* 50000; lengths 50 and 50000 are accepted, 49 and 50001 rejected.
C18_Validation ==
    fn \in { "validate_input", "InputValidator.validate" } =>
        LET n == args.text.lead + args.text.body + args.text.trail
        IN  /\ ret = C18_Pair(n)
            /\ ret = validate_input(args.text)
            /\ ret = InputValidator_validate(args.text)
            /\ ret[1] <=> (50 <= n /\ n <= 50000)
            /\ (n = 50 \/ n = 50000) => ret = << TRUE, "" >>
            /\ (n = 49 \/ n = 50001) => ~ret[1]

\* A text of exactly 50 characters, 48 of them between its whitespace, was accepted.
C18_Witness ==
    /\ fn = "validate_input"
    /\ len(args.text) = 50 /\ args.text.body = 48
    /\ ret = << TRUE, "" >>

\* Texts of 49, 50000 and 50001 characters were judged by InputValidator.validate.
C18_Witness49 ==
    /\ fn = "InputValidator.validate"
    /\ len(args.text) = 49
    /\ ret = << FALSE, "Article text must be at least 50 characters" >>

C18_Witness50000 ==
    /\ fn = "InputValidator.validate"
    /\ len(args.text) = 50000
    /\ ret = << TRUE, "" >>

C18_Witness50001 ==
    /\ fn = "InputValidator.validate"
    /\ len(args.text) = 50001
    /\ ret = << FALSE, "Article text must not exceed 50,000 characters" >>

\* The result analyze(txt, m, vectorizer) returns when the call runs alone
\* with the collaborators w.
C14_Alone(txt, m, w) ==
    IF txt.t # "str" \/ txt.body < 50
    THEN (IF txt.t # "str" \/ txt.lead + txt.body + txt.trail = 0
          THEN EmptyInputResult ELSE ShortTextResult)
    ELSE LET c == IF m.proba THEN max(w.predict_proba[txt])
                  ELSE IF m.decision THEN MarginConfidence(w.decision_function[txt])
                  ELSE Unit \div 2
         IN  FullResult(txt, w.predict[txt], c, w.detect_patterns[txt],
                        w.analyze_emotional_tone[txt], w.identify_suspicious_claims[txt])

\* Call t has returned to its caller.
C13_Done(t) == invoked[t].result # PyNone

C13_Same ==
    \A t, u \in Callers :
        (/\ C13_Done(t) /\ C13_Done(u)
         /\ invoked[t].text = invoked[u].text /\ invoked[t].model = invoked[u].model)
            => /\ DOMAIN invoked[t].result = DOMAIN invoked[u].result
               /\ \A k \in DOMAIN invoked[t].result : invoked[t].result[k] = invoked[u].result[k]

C14_Isolation ==
    /\ instance = NoAttributes
    /\ \A t \in Callers :
          /\ C13_Done(t) => invoked[t].result = C14_Alone(invoked[t].text, invoked[t].model, world)
          /\ C13_Done(t) <=> frames[t].pc = "returned"
          /\ frames[t].pc # "idle" =>
                frames[t].text = invoked[t].text /\ frames[t].model = invoked[t].model

\* Two calls on different texts, for which the collaborators answer
\* differently, were both under way when the first of them returned.
C14_Witness ==
    /\ invoked[1].text = TextA /\ invoked[2].text = TextB
    /\ C13_Done(1)
    /\ frames[2].pc = "tone"
    /\ world.predict[TextA] # world.predict[TextB]
    /\ invoked[1].result.model_prediction = PyInt(0)

\* The hint the results column shows in place of results.
C20_Hint == PyStr("Enter an article in the input panel and click 'Analyze Article' to see results.")

\* C19: after every handled click of the Analyze button (the validation
\* failed, analyze returned, or analyze raised) analyze_clicked and analyzing
\* are both False when the run of main ends; after a successful analysis
\* results holds the value analyze returned and analyzed is True.
C19_FlagsReset ==
    /\ (script \in { "display", "waiting" } /\ "analyze_clicked" \in DOMAIN session_state) =>
          /\ session_state["analyze_clicked"] = FALSE
          /\ session_state["analyzing"] = FALSE
    /\ (script \in { "display", "waiting" } /\ results # PyNone) =>
          /\ session_state["results"] = results
          /\ session_state["analyzed"] = TRUE
          /\ "classification" \in DOMAIN results

\* A run of main ended after analyze returned a full result.
C19_Witness ==
    /\ script = "waiting"
    /\ results # PyNone /\ "patterns" \in DOMAIN results
    /\ session_state["results"] = results /\ session_state["analyzed"]
    /\ ~session_state["analyze_clicked"] /\ ~session_state["analyzing"]

\* A run of main ended after analyze raised, with results of an earlier run cleared.
C19_WitnessRaised ==
    /\ script = "waiting"
    /\ article_text # PyNone /\ validate_input(article_text)[1]
    /\ results = PyNone
    /\ session_state["results"] = PyNone /\ ~session_state["analyzed"]
    /\ ~session_state["analyze_clicked"] /\ ~session_state["analyzing"]
    /\ shown = C20_Hint

C20_Cleared ==
    /\ script = "analyze" =>
          /\ session_state["results"] = PyNone
          /\ session_state["analyzed"] = FALSE
          /\ results = PyNone
    /\ (script = "waiting" /\ shown # PyNone /\ shown # C20_Hint) =>
          /\ session_state["analyzed"] = TRUE
          /\ session_state["results"] # PyNone /\ DOMAIN session_state["results"] # {}
          /\ shown = session_state["results"]
          /\ results # PyNone => shown = results

\* A step out of the call of analyze leaves the results cleared or holds
\* what this call returned; the stored results change in no other step but
\* the clearing one.
C20_Step ==
    /\ script = "analyze" =>
          \/ session_state'["results"] = PyNone /\ session_state'["analyzed"] = FALSE
          \/ /\ results' # PyNone
             /\ session_state'["results"] = results' /\ session_state'["analyzed"] = TRUE
    /\ (script \in { "input", "display" } \/ (script = "results" /\ script' # "analyze")) =>
          /\ session_state'["results"] = session_state["results"]
          /\ session_state'["analyzed"] = session_state["analyzed"]

\* C20: when a click with valid text is handled, results is None and
\* analyzed False before analyze is called and they stay so if the call
\* raises; the results section is rendered only when analyzed is True and
\* results is non-empty, and then shows the stored results, never those of an
\* analysis older than the last one started.
C20_NoStaleResults == [](C20_Cleared) /\ [][C20_Step]_vars

\* The analysis of a 50-character text has been started: the stored results
\* are cleared and nothing is rendered yet.
C20_Witness ==
    /\ script = "analyze"
    /\ session_state["results"] = PyNone
    /\ shown = PyNone
    /\ article_text = Article(1, MIN_TEXT_LENGTH - 2, 1)

\* C21: the Analyze button is rendered disabled exactly when the text has
\* fewer than 50 characters, more than 50000 characters, or analyzing is True
\* in st.session_state, and enabled otherwise.
C21_Length(txt) == txt.lead + txt.body + txt.trail

C21_Analyzing(state) == "analyzing" \in DOMAIN state /\ state["analyzing"] = TRUE

C21_ButtonDisabled ==
    fn = "render_input_panel" =>
        ret.disabled = (\/ C21_Length(args.article_text) < 50
                        \/ C21_Length(args.article_text) > 50000
                        \/ C21_Analyzing(args.session_state))

\* A text of valid length whose button is disabled because analyzing is True.
C21_Witness ==
    /\ fn = "render_input_panel"
    /\ C21_Length(args.article_text) = 50
    /\ C21_Analyzing(args.session_state)
    /\ ret.disabled

\* A text of 50000 characters with analyzing absent: the button is enabled.
C21_WitnessEnabled ==
    /\ fn = "render_input_panel"
    /\ C21_Length(args.article_text) = 50000
    /\ args.session_state = NoKeys
    /\ ~ret.disabled

\* C22: load_model raises FileNotFoundError mentioning "Model file not found"
\* when the model file is absent (whatever the vectorizer file), mentioning
\* "Vectorizer file not found" when only the vectorizer file is absent, an
\* exception mentioning "Failed to load model files" when both exist and a
\* load fails, and returns the pair only when both loads succeed.
C22_Mentions(e, phrase) ==
    "raised" \in DOMAIN e /\ \E i \in 1..Len(e.message) : e.message[i] = phrase

C22_Failed(outcome) == "raised" \in DOMAIN outcome

C22_Outcomes ==
    fn = "load_model" =>
        IF ~args.model_exists
        THEN ret.raised = "FileNotFoundError" /\ C22_Mentions(ret, "Model file not found at: ")
        ELSE IF ~args.vectorizer_exists
        THEN ret.raised = "FileNotFoundError"
                /\ C22_Mentions(ret, "Vectorizer file not found at: ")
        ELSE IF C22_Failed(args.model_load) \/ C22_Failed(args.vectorizer_load)
        THEN C22_Mentions(ret, "Failed to load model files: ")
        ELSE ret = [ returned |-> << "best_model.joblib", "tfidf_vectorizer.joblib" >> ]

\* The calls of the full path for a classifier m, in the order of the code.
C23_Order(m) ==
    << "vectorizer.transform", "model.predict" >>
      \o (IF m.proba THEN << "model.predict_proba" >>
          ELSE IF m.decision THEN << "model.decision_function" >>
          ELSE << >>)
      \o << "detect_patterns", "analyze_emotional_tone", "identify_suspicious_claims" >>

C23_Outcome ==
    FullPath =>
        /\ calls = C23_Order(model)
        /\ result.patterns = PyDict(detected_patterns)
        /\ result.pattern_score = PyFloat(calculate_pattern_score(detected_patterns))
        /\ result.classification
             = PyStr(classify_credibility(text, model_prediction, model_confidence,
                                          detected_patterns))
        /\ result.confidence
             = PyInt(calculate_confidence(model_confidence,
                                          pattern_consistency(detected_patterns)))
        /\ result.key_indicators = StrList(extract_key_indicators(detected_patterns, text))
        /\ result.explanation
             = PyStr(generate_explanation(result.classification.s, result.credibility_score.n,
                                          detected_patterns,
                                          extract_key_indicators(detected_patterns, text)))

\* Once detect_patterns has returned, the mapping is not replaced.
C23_Kept == pc \in { "tone", "claims" } => detected_patterns' = detected_patterns

\* C23: on the full path analyze calls vectorizer.transform, model.predict,
\* the confidence source the classifier offers (none when it offers neither),
\* detect_patterns, analyze_emotional_tone and identify_suspicious_claims,
\* each once and in this order; the mapping detect_patterns returned is not
\* replaced afterwards, it is the one behind the pattern score, the
\* consistency, the classification, the indicators and the explanation, and
\* it is the patterns field of the result.
C23_SinglePatterns == [](C23_Outcome) /\ [][C23_Kept]_vars

\* A full-path result of a classifier with a decision function only, whose
\* detector output had one signal past its cap.
C23_Witness ==
    /\ FullPath
    /\ ~model.proba /\ model.decision
    /\ Len(calls) = 6
    /\ result.patterns = PyDict([ Score05 EXCEPT !["clickbait"] = 2 + MaxOver ])

\* The classifier's probability output is absent or has two classes summing to 1.
C24_TwoClass ==
    \/ predict_proba = PyNone
    \/ /\ Len(predict_proba.items) = 2
       /\ predict_proba.items[1] + predict_proba.items[2] = Unit

\* C24: with a confidence that is the larger of two class probabilities
\* summing to 1, or with no probability output, a full-path result is never
\* UNVERIFIED: the unstripped length is at least the stripped length, which is
\* at least 50, and the model confidence is at least 0.5.
C24_NeverUnverified ==
    (FullPath /\ C24_TwoClass) =>
        /\ result.classification # PyStr("UNVERIFIED")
        /\ text.lead + text.body + text.trail >= text.body /\ text.body >= 50
        /\ 2 * model_confidence >= Unit

\* A padded text whose two class probabilities are both 0.5.
C24_Witness ==
    /\ FullPath
    /\ predict_proba = NdArray(<< 30, 30 >>)
    /\ text.lead > 0
    /\ result.classification \in { PyStr("REAL"), PyStr("MISLEADING") }

\* A classifier without probability output: the confidence is the default 0.5.
C24_WitnessDefault ==
    /\ FullPath
    /\ ~model.proba /\ ~model.decision
    /\ 2 * model_confidence = Unit
    /\ result.classification = PyStr("REAL")

\* C25 as stated: with a model confidence in [0.5, 1] no result has
\* classification REAL together with risk_level High Risk.
C25_Original ==
    (FullPath /\ 2 * model_confidence >= Unit) =>
        ~(result.classification = PyStr("REAL") /\ result.risk_level = PyStr("High Risk"))

\* C25 (amended): a REAL result of a credible prediction (model_prediction 1)
\* has credibility_score >= 50 and is never High Risk; a REAL result that is
\* High Risk comes from model_prediction 0 with a model confidence in
\* [0.5, 0.75], and its credibility_score is at least 32.
C25_CredibleSide ==
    (FullPath /\ result.classification = PyStr("REAL")) =>
        /\ model_prediction = 1 =>
              /\ result.credibility_score.n >= 50
              /\ result.risk_level # PyStr("High Risk")
        /\ result.risk_level = PyStr("High Risk") =>
              /\ model_prediction = 0
              /\ 2 * model_confidence >= Unit /\ 4 * model_confidence <= 3 * Unit
              /\ result.credibility_score.n >= 32

\* A REAL result of a credible prediction at the lowest score, 50.
C25_Witness ==
    /\ FullPath
    /\ result.classification = PyStr("REAL")
    /\ model_prediction = 1
    /\ result.credibility_score = PyInt(50)
    /\ result.risk_level = PyStr("Medium Risk")

\* A REAL result that is High Risk: prediction 0, confidence 0.75, score 32.
C25_WitnessHighRisk ==
    /\ FullPath
    /\ result.classification = PyStr("REAL")
    /\ model_prediction = 0
    /\ 4 * model_confidence = 3 * Unit
    /\ result.credibility_score = PyInt(32)
    /\ result.risk_level = PyStr("High Risk")

\* C26: a FAKE result has credibility_score < 40 and risk_level High Risk:
\* it comes from model_prediction 0 with confidence > 0.75 and pattern score
\* > 0.7, which keeps the blend below 0.70*25 + 0.30*30 = 26.5.
C26_FakeHighRisk ==
    (FullPath /\ result.classification = PyStr("FAKE")) =>
        /\ model_prediction = 0
        /\ 4 * model_confidence > 3 * Unit
        /\ 10 * result.pattern_score.n > 7 * PsUnit
        /\ 2 * Blend(model_confidence, model_prediction, result.pattern_score.n) < 53 * BlendDen
        /\ result.credibility_score.n <= 26
        /\ result.credibility_score.n < 40
        /\ result.risk_level = PyStr("High Risk")

\* A FAKE result just past both thresholds.
C26_Witness ==
    /\ FullPath
    /\ result.classification = PyStr("FAKE")
    /\ model_confidence = 46
    /\ result.credibility_score.n >= 24

\* C27 as stated: whatever analyze returned to main for a text validate_input
\* accepted is a full-path result, and the results column never renders the
\* insufficient-input result.
C27_Degraded(value) ==
    /\ "explanation" \in DOMAIN value
    /\ value.explanation = PyStr("INSUFFICIENT INFORMATION")
    /\ DOMAIN value \cap { "model_prediction", "pattern_score", "patterns" } = {}

C27_GatesAgree == ~C27_Degraded(results) /\ ~C27_Degraded(shown)

\* The label classify_credibility gives the drawn text and patterns for a
\* credible prediction with confidence c.
C28_Label(c) == classify_credibility(args.text, 1, c, args.patterns)

\* classify_credibility returned REAL for a credible prediction on a text of
\* 50 or more characters.
C28_Real ==
    /\ fn = "classify_credibility"
    /\ args.prediction = 1
    /\ args.text.lead + args.text.body + args.text.trail >= 50
    /\ ret = "REAL"

\* C28 as stated: raising the confidence never turns REAL into another label.
C28_Original ==
    C28_Real => \A c \in ConfidenceGrid : c >= args.confidence => C28_Label(c) = "REAL"

\* C28 (amended): raising the confidence of a credible prediction never
\* turns REAL into UNVERIFIED, and turns it into MISLEADING exactly when the
\* confidence goes from at most 0.75 to above 0.75 with a pattern score of
\* 0.3 or more (the REAL bound on the pattern score is 0.5 up to 0.75 and
\* 0.3 above it).
C28_MonotoneInBand ==
    C28_Real =>
        \A c \in ConfidenceGrid :
            c >= args.confidence =>
                C28_Label(c) =
                    (IF /\ 4 * args.confidence <= 3 * Unit /\ 4 * c > 3 * Unit
                        /\ 10 * calculate_pattern_score(args.patterns) >= 3 * PsUnit
                     THEN "MISLEADING" ELSE "REAL")

\* REAL at confidence just above 0.5 with pattern score 0.5: lost above 0.75.
C28_Witness ==
    /\ C28_Real
    /\ args.confidence = 31
    /\ args.patterns = Score05
    /\ C28_Label(46) = "MISLEADING"

\* REAL at confidence 0.5 with no signal: kept up to confidence 1.
C28_WitnessKept ==
    /\ C28_Real
    /\ args.confidence = 30
    /\ args.patterns = Zero
    /\ C28_Label(Unit) = "REAL"

\* The signals of the mapping are in their domains: counts are not
\* negative, ratios lie in [0, 1].
C29_InDomain(p) ==
    \A k \in DOMAIN p : p[k] >= 0 /\ (k \in RatioNames => p[k] <= Unit)

\* C29: the population variance of the nine normalized values is at most
\* 20/81, so the clamp min(1, 2*variance) never binds, pattern_consistency is
\* at least 0.5 (indeed at least 41/81), the confidence is at least
\* round(60*model_confidence + 20), and at least 50 for a model confidence
\* of 0.5 or more.
C29_Floor ==
    (fn = "calculate_confidence" /\ C29_InDomain(args.patterns)) =>
        /\ 81 * variance(args.patterns) <= 20 * VarDen
        /\ 2 * variance(args.patterns) < VarDen
        /\ 81 * pattern_consistency(args.patterns) >= 41 * VarDen
        /\ 2 * pattern_consistency(args.patterns) >= VarDen
        /\ ret >= PyRound(60 * args.confidence + 20 * Unit, Unit)
        /\ (2 * args.confidence >= Unit => ret >= 50)

\* Four signals saturated and five at zero: the variance is 20/81, and with
\* model confidence 0.5 the confidence is 50.
C29_Witness ==
    /\ fn = "calculate_confidence"
    /\ args.patterns = Score05
    /\ 81 * variance(args.patterns) = 20 * VarDen
    /\ args.confidence = 30
    /\ ret = 50

C30_WitnessRerun ==
    /\ script = "results"
    /\ session_state["analyzed"]
    /\ button # PyNone
    /\ ~button.disabled
====
